---- MODULE Spec2Model ----
(***************************************************************************)
(* IBGRoboot assertion engine (src/lib/assertion_response.js).             *)
(*                                                                         *)
(* runAssertions(responseData, assertions) is modelled as a state machine  *)
(* on top of the JavaScript job model: an async function runs              *)
(* synchronously up to its first `await`, an `await` parks the rest of the *)
(* function on the microtask queue, and a promise nobody awaits keeps      *)
(* running after its caller went on.                                       *)
(***************************************************************************)
EXTENDS Integers, Sequences, FiniteSets, TLC

(***************************************************************************)
(* JavaScript values.  Every value is a record of the same shape so that   *)
(* any two values can be compared: t is the runtime tag, n/h a number      *)
(* (n + h/2, h in {0,1}), s a string, b a boolean, c the content of an     *)
(* array (sequence of values) or of an object (sequence of [k, v] entries  *)
(* in insertion order, keys unique).                                       *)
(***************************************************************************)
Val(t, n, h, s, b, c) == [t |-> t, n |-> n, h |-> h, s |-> s, b |-> b, c |-> c]

Undef == Val("undefined", 0, 0, "", FALSE, <<>>)

Null == Val("null", 0, 0, "", FALSE, <<>>)

Num(n) == Val("number", n, 0, "", FALSE, <<>>)

NumHalf(n) == Val("number", n, 1, "", FALSE, <<>>)

Str(s) == Val("string", 0, 0, s, FALSE, <<>>)

Bool(b) == Val("boolean", 0, 0, "", b, <<>>)

Arr(items) == Val("array", 0, 0, "", FALSE, items)

Obj(entries) == Val("object", 0, 0, "", FALSE, entries)

KV(k, v) == [k |-> k, v |-> v]

\* typeof v
TypeOf(v) == IF v.t \in {"null", "array", "object", "promise"} THEN "object" ELSE v.t

\* Array.isArray(v)
IsArray(v) == v.t = "array"

\* Boolean(v): the falsy values are undefined, null, false, 0, "" (NaN is
\* not a JSON value)
Truthy(v) ==
  CASE v.t \in {"undefined", "null"} -> FALSE
    [] v.t = "boolean" -> v.b
    [] v.t = "number" -> ~(v.n = 0 /\ v.h = 0)
    [] v.t = "string" -> v.s # ""
    [] OTHER -> TRUE

\* String(v) for a value used as a property key: obj[undefined] reads the
\* key "undefined"
PropKey(v) ==
  CASE v.t = "string" -> v.s
    [] v.t = "undefined" -> "undefined"
    [] v.t = "null" -> "null"
    [] v.t = "boolean" -> (IF v.b THEN "true" ELSE "false")
    [] OTHER -> "[value]"

\* Object.keys(obj), in insertion order (array indices and string
\* characters are not modelled as keys)
Keys(obj) ==
  IF obj.t = "object" THEN [j \in 1..Len(obj.c) |-> obj.c[j].k] ELSE <<>>

\* Object.prototype.hasOwnProperty.call(obj, key)
HasOwn(obj, key) ==
  obj.t = "object" /\ \E j \in 1..Len(obj.c) : obj.c[j].k = key

\* obj[key] for a string key: own properties only (the properties every
\* object inherits, such as "constructor", are outside the modelled keys)
Get(obj, key) ==
  IF HasOwn(obj, key)
  THEN obj.c[CHOOSE j \in 1..Len(obj.c) : obj.c[j].k = key].v
  ELSE Undef

\* `const { key } = inputs` needs inputs to be neither null nor undefined
Destructurable(v) == v.t \notin {"undefined", "null"}

\* the value can be iterated by for..of
Iterable(v) == v.t \in {"array", "string"}

Range(seq) == {seq[j] : j \in 1..Len(seq)}

(***************************************************************************)
(* Messages.  A message is a JavaScript string built from a template; the  *)
(* model keeps the template (tag) and what is interpolated into it: the    *)
(* strings, the numbers, the failing indices and the per-index             *)
(* sub-messages.  NoMessage is the value `undefined`.                      *)
(***************************************************************************)
Msg(tag, strs, nums) ==
  [tag |-> tag, strs |-> strs, nums |-> nums, idx |-> <<>>, subs |-> <<>>]

NoMessage == Msg("undefined", <<>>, <<>>)

PassMsg == Msg("Assertion passed.", <<>>, <<>>)

\* a string taken as is (the custom validator's error)
Literal(s) == Msg("literal", <<s>>, <<>>)

\* typeof m === "string"
IsStringMsg(m) == m.tag # "undefined"

\* the outcome of a call: it returns { pass, msg }, throws err, or (async)
\* is parked at an await
Return(pass, msg) == [kind |-> "return", pass |-> pass, msg |-> msg, err |-> ""]

Throw(err) == [kind |-> "throw", pass |-> FALSE, msg |-> NoMessage, err |-> err]

Await == [kind |-> "await", pass |-> FALSE, msg |-> NoMessage, err |-> ""]

Fail(tag, strs, nums) == Return(FALSE, Msg(tag, strs, nums))

Pass == Return(TRUE, PassMsg)

ErrDestructure == "TypeError: Cannot destructure 'inputs' as it is undefined."

ErrNotIterable == "TypeError: fields is not iterable"

ErrBadRegExp == "SyntaxError: Invalid regular expression"

(***************************************************************************)
(* Strings of the model: the characters of each sample string, which is    *)
(* what String.prototype.trim and .length work on.                         *)
(***************************************************************************)
Chars(s) ==
  CASE s = "" -> <<>>
    [] s = " " -> <<" ">>
    [] s = "x" -> <<"x">>
    [] s = "ab" -> <<"a", "b">>
    [] s = " a " -> <<" ", "a", " ">>
    [] s = "a@" -> <<"a", "@">>
    [] OTHER -> <<"a", "b", "c", "d">>

RECURSIVE TrimLeft(_)
TrimLeft(cs) ==
  IF cs # <<>> /\ Head(cs) = " " THEN TrimLeft(Tail(cs)) ELSE cs

RECURSIVE TrimRight(_)
TrimRight(cs) ==
  IF cs # <<>> /\ cs[Len(cs)] = " "
  THEN TrimRight(SubSeq(cs, 1, Len(cs) - 1))
  ELSE cs

\* s.trim(), as characters
Trim(s) == TrimRight(TrimLeft(Chars(s)))

\* String(v), as characters, for the values that reach RegExp.test
ToChars(v) ==
  CASE v.t = "string" -> Chars(v.s)
    [] v.t = "boolean" -> (IF v.b THEN <<"t", "r", "u", "e">> ELSE <<"f", "a", "l", "s", "e">>)
    [] v.t = "number" -> <<"0">>
    [] OTHER -> <<"[", "o", "]">>

(***************************************************************************)
(* Regular expressions of the model.  new RegExp(p) throws a SyntaxError   *)
(* for the malformed pattern "["; new RegExp(undefined) matches anything.  *)
(***************************************************************************)
RegExpThrows(p) == p.t = "string" /\ p.s = "["

RegExpTest(p, cs) ==
  CASE p.t = "undefined" -> TRUE
    [] p.t = "string" /\ p.s = "" -> TRUE
    [] p.t = "string" /\ p.s = "^a" -> cs # <<>> /\ cs[1] = "a"
    [] p.t = "string" /\ p.s = "^[a-z]+$" ->
         cs # <<>> /\ \A j \in 1..Len(cs) : cs[j] \in {"a", "b", "c", "d", "x"}
    [] p.t = "string" /\ p.s = "[!@#$%^&*()]+" ->
         \E j \in 1..Len(cs) : cs[j] \in {"!", "@", "#", "$", "%", "^", "&", "*", "(", ")"}
    [] OTHER -> FALSE

(***************************************************************************)
(* External validator modules, by path: what import(path) and the module's *)
(* validate export do.  load: the import resolves; export: typeof          *)
(* module.validate; call: validate returns result, returns a promise that  *)
(* later delivers result, or throws.                                       *)
(***************************************************************************)
Module(load, export, call, result) ==
  [load |-> load, export |-> export, call |-> call, result |-> result]

StatusError(status, error) == Obj(<<KV("status", Bool(status)), KV("error", Str(error))>>)

MissingModule == Module(FALSE, "undefined", "return", Undef)

ModuleAt(path) ==
  CASE path.t # "string" -> MissingModule
    [] path.s = "./ok.js" -> Module(TRUE, "function", "return", StatusError(TRUE, ""))
    [] path.s = "./bad.js" -> Module(TRUE, "function", "return", StatusError(FALSE, "bad"))
    [] path.s = "./empty_error.js" -> Module(TRUE, "function", "return", StatusError(FALSE, ""))
    [] path.s = "./no_export.js" -> Module(TRUE, "undefined", "return", Undef)
    [] path.s = "./not_callable.js" -> Module(TRUE, "object", "return", Undef)
    [] path.s = "./no_status.js" ->
         Module(TRUE, "function", "return", Obj(<<KV("error", Str("bad"))>>))
    [] path.s = "./no_error.js" ->
         Module(TRUE, "function", "return", Obj(<<KV("status", Bool(FALSE))>>))
    [] path.s = "./returns_null.js" -> Module(TRUE, "function", "return", Null)
    [] path.s = "./throws.js" -> Module(TRUE, "function", "throw", Undef)
    [] path.s = "./async_ok.js" -> Module(TRUE, "function", "promise", StatusError(TRUE, ""))
    [] path.s = "./async_bad.js" -> Module(TRUE, "function", "promise", StatusError(FALSE, "bad"))
    [] OTHER -> MissingModule

\* a pending or settled Promise object: it has no own status or error
PromiseObject == Val("promise", 0, 0, "", FALSE, <<>>)

ErrModuleNotFound == "Error: Cannot find module"

ErrValidatorThrew == "Error: boom"

(***************************************************************************)
(* Helpers shared by the rules.                                            *)
(***************************************************************************)
\* FirstBad without the break: the last failure is the one kept
FirstBadNoBreak(flags) ==
  IF \E j \in 1..Len(flags) : flags[j]
  THEN CHOOSE j \in 1..Len(flags) : flags[j] /\ \A m \in (j + 1)..Len(flags) : ~flags[m]
  ELSE 0

\* the position of the first TRUE in a sequence of booleans, 0 when there is
\* none: where a for..of loop breaks at its first failure
FirstBad(flags) ==
  IF \E j \in 1..Len(flags) : flags[j]
  THEN CHOOSE j \in 1..Len(flags) : flags[j] /\ \A m \in 1..(j - 1) : ~flags[m]
  ELSE 0

\* the values a for..of loop over v visits
IterItems(v) ==
  IF v.t = "array" THEN v.c
  ELSE [j \in 1..Len(Chars(v.s)) |-> Str(Chars(v.s)[j])]

\* Array.isArray(inputs) ? inputs : [inputs]
AsList(inputs) == IF IsArray(inputs) THEN inputs.c ELSE <<inputs>>

\* a === b for values that come from different JSON documents: primitives
\* by value, objects and arrays never (they are distinct references)
StrictEq(a, b) == a.t \notin {"object", "array", "promise"} /\ a = b

\* typeof value === name, for a type name given as a value
TypeIs(value, name) == name.t = "string" /\ name.s = TypeOf(value)

\* 2 * x for a number value, so that halves compare as integers
Twice(x) == 2 * x.n + x.h

\* Number.isInteger(x)
IsInteger(x) == x.t = "number" /\ x.h = 0

\* `const { key = dflt } = inputs`
GetOr(obj, key, dflt) == IF Get(obj, key).t = "undefined" THEN dflt ELSE Get(obj, key)

(***************************************************************************)
(* classifyAssertion                                                       *)
(***************************************************************************)
arrayAssertions == {"Array Validation"}

\* classifyAssertion with objectCheck kept for the names it lists in its
\* comment, so that other names are neither
classifyAssertionListed(assertionType) ==
  [arrayCheck |-> assertionType \in arrayAssertions,
   objectCheck |-> assertionType \in {"Required Fields", "No Additional Fields",
                                      "Schema Compliance", "Number Field Validation"}]

classifyAssertion(assertionType) ==
  [arrayCheck |-> assertionType \in arrayAssertions,
   objectCheck |-> assertionType \notin arrayAssertions]

(***************************************************************************)
(* validateArrayLevel: checks on the collection as a whole.                *)
(***************************************************************************)
\* validateArrayLevel with the maximum looked at before the minimum
validateArrayLevelMaxFirst(arrayData, assertion, inputs) ==
  IF assertion = "Array Validation"
  THEN IF ~Destructurable(inputs) THEN Throw(ErrDestructure)
       ELSE LET minLength == Get(inputs, "minLength")
                maxLength == Get(inputs, "maxLength")
                length == Len(arrayData.c)
            IN  IF maxLength.t = "number" /\ 2 * length > Twice(maxLength)
                THEN Fail("Array length exceeds maximum. Actual length =",
                          <<>>, <<Twice(maxLength), length>>)
                ELSE IF minLength.t = "number" /\ 2 * length < Twice(minLength)
                THEN Fail("Array length is below minimum. Actual length =",
                          <<>>, <<Twice(minLength), length>>)
                ELSE Pass
  ELSE Return(TRUE, Msg("Unrecognized array-level assertion. Skipping.", <<assertion>>, <<>>))

validateArrayLevel(arrayData, assertion, inputs) ==
  IF assertion = "Array Validation"
  THEN IF ~Destructurable(inputs) THEN Throw(ErrDestructure)
       ELSE LET minLength == Get(inputs, "minLength")
                maxLength == Get(inputs, "maxLength")
                length == Len(arrayData.c)
            IN  IF minLength.t = "number" /\ 2 * length < Twice(minLength)
                THEN Fail("Array length is below minimum. Actual length =",
                          <<>>, <<Twice(minLength), length>>)
                ELSE IF maxLength.t = "number" /\ 2 * length > Twice(maxLength)
                THEN Fail("Array length exceeds maximum. Actual length =",
                          <<>>, <<Twice(maxLength), length>>)
                ELSE Pass
  ELSE Return(TRUE, Msg("Unrecognized array-level assertion. Skipping.", <<assertion>>, <<>>))

(***************************************************************************)
(* validateObjectLevel, one operator per case of its switch.               *)
(***************************************************************************)
\* Schema Compliance with the strict flag never looked at
SchemaComplianceNoStrict(obj, inputs) ==
  IF ~Destructurable(inputs) THEN Throw(ErrDestructure)
  ELSE
  LET schema == Get(inputs, "schema")
  IN  IF ~Truthy(schema) \/ TypeOf(schema) # "object"
      THEN Fail("No schema object provided in inputs.", <<>>, <<>>)
      ELSE
      LET names == Keys(schema)
          Mismatch(fieldName) == ~TypeIs(Get(obj, fieldName), Get(schema, fieldName))
          j == FirstBad([n \in 1..Len(names) |-> Mismatch(names[n])])
      IN  IF j > 0
          THEN Fail("Field should be type but got",
                    <<names[j], PropKey(Get(schema, names[j])), TypeOf(Get(obj, names[j]))>>, <<>>)
          ELSE Pass

SchemaCompliance(obj, inputs) ==
  IF ~Destructurable(inputs) THEN Throw(ErrDestructure)
  ELSE
  LET schema == Get(inputs, "schema")
      strict == GetOr(inputs, "strict", Bool(FALSE))
  IN  IF ~Truthy(schema) \/ TypeOf(schema) # "object"
      THEN Fail("No schema object provided in inputs.", <<>>, <<>>)
      ELSE
      LET names == Keys(schema)
          Mismatch(fieldName) == ~TypeIs(Get(obj, fieldName), Get(schema, fieldName))
          j == FirstBad([n \in 1..Len(names) |-> Mismatch(names[n])])
          Extra(key) == ~HasOwn(schema, key)
          e == FirstBad([n \in 1..Len(Keys(obj)) |-> Extra(Keys(obj)[n])])
      IN  IF j > 0
          THEN Fail("Field should be type but got",
                    <<names[j], PropKey(Get(schema, names[j])), TypeOf(Get(obj, names[j]))>>, <<>>)
          ELSE IF Truthy(strict) /\ e > 0
          THEN Fail("Strict schema compliance failed. Unexpected field", <<Keys(obj)[e]>>, <<>>)
          ELSE Pass

\* Required Fields with a field counted as missing when its value is null or
\* undefined
RequiredFieldsByValue(obj, inputs) ==
  LET requiredFields == AsList(inputs)
      Missing(field) == Get(obj, PropKey(field)).t \in {"undefined", "null"}
      j == FirstBad([n \in 1..Len(requiredFields) |-> Missing(requiredFields[n])])
  IN  IF j > 0
      THEN Fail("Missing required field", <<PropKey(requiredFields[j])>>, <<>>)
      ELSE Pass

RequiredFields(obj, inputs) ==
  LET requiredFields == AsList(inputs)
      Missing(field) == ~HasOwn(obj, PropKey(field))
      j == FirstBad([n \in 1..Len(requiredFields) |-> Missing(requiredFields[n])])
  IN  IF j > 0
      THEN Fail("Missing required field", <<PropKey(requiredFields[j])>>, <<>>)
      ELSE Pass

NoAdditionalFields(obj, inputs) ==
  LET allowedFields == Range(AsList(inputs))
      Extra(key) == Str(key) \notin allowedFields
      j == FirstBad([n \in 1..Len(Keys(obj)) |-> Extra(Keys(obj)[n])])
  IN  IF j > 0
      THEN Fail("Unexpected field found", <<Keys(obj)[j]>>, <<>>)
      ELSE Pass

\* the flat form with the length taken of the string as it is
StringFieldFlatUntrimmed(obj, field) ==
  LET value == Get(obj, PropKey(field))
  IN  IF value.t # "string" THEN "is not a string."
      ELSE IF Len(Chars(value.s)) = 0 THEN "cannot be an empty string."
      ELSE ""

\* what one field of String Field Validation fails on, "" when it passes
StringFieldFlat(obj, field) ==
  LET value == Get(obj, PropKey(field))
  IN  IF value.t # "string" THEN "is not a string."
      ELSE IF Len(Trim(value.s)) = 0 THEN "cannot be an empty string."
      ELSE ""

StringFieldStructured(obj, field, minLength, maxLength, pattern) ==
  LET value == Get(obj, PropKey(field))
      trimmed == Trim(value.s)
  IN  IF value.t # "string" THEN "is not a string."
      ELSE IF minLength.t = "number" /\ 2 * Len(trimmed) < Twice(minLength)
      THEN "length is below minimum"
      ELSE IF maxLength.t = "number" /\ 2 * Len(trimmed) > Twice(maxLength)
      THEN "length exceeds maximum"
      ELSE IF Truthy(pattern) /\ RegExpThrows(pattern) THEN "throw"
      ELSE IF Truthy(pattern) /\ ~RegExpTest(pattern, trimmed)
      THEN "does not match pattern:"
      ELSE ""

StringFieldValidation(obj, inputs) ==
  IF IsArray(inputs)
  THEN LET Bad(field) == StringFieldFlat(obj, field) # ""
           j == FirstBad([n \in 1..Len(inputs.c) |-> Bad(inputs.c[n])])
       IN  IF j > 0
           THEN Fail(StringFieldFlat(obj, inputs.c[j]), <<PropKey(inputs.c[j])>>, <<>>)
           ELSE Pass
  ELSE IF ~Destructurable(inputs) THEN Throw(ErrDestructure)
  ELSE LET fields == Get(inputs, "fields")
           minLength == Get(inputs, "minLength")
           maxLength == Get(inputs, "maxLength")
           pattern == Get(inputs, "pattern")
           Why(field) == StringFieldStructured(obj, field, minLength, maxLength, pattern)
           Bad(field) == Why(field) # ""
           j == FirstBad([n \in 1..Len(IterItems(fields)) |-> Bad(IterItems(fields)[n])])
       IN  IF ~Iterable(fields) THEN Throw(ErrNotIterable)
           ELSE IF j = 0 THEN Pass
           ELSE IF Why(IterItems(fields)[j]) = "throw" THEN Throw(ErrBadRegExp)
           ELSE Fail(Why(IterItems(fields)[j]), <<PropKey(IterItems(fields)[j])>>, <<>>)

\* the structured form with the bounds themselves out of range
NumberFieldStructuredExclusive(obj, field, min, max, integerOnly) ==
  LET value == Get(obj, PropKey(field))
  IN  IF value.t # "number" THEN "is not a number."
      ELSE IF min.t = "number" /\ Twice(value) <= Twice(min) THEN "is below minimum value"
      ELSE IF max.t = "number" /\ Twice(value) >= Twice(max) THEN "exceeds maximum value"
      ELSE IF Truthy(integerOnly) /\ ~IsInteger(value) THEN "must be an integer."
      ELSE ""

NumberFieldStructured(obj, field, min, max, integerOnly) ==
  LET value == Get(obj, PropKey(field))
  IN  IF value.t # "number" THEN "is not a number."
      ELSE IF min.t = "number" /\ Twice(value) < Twice(min) THEN "is below minimum value"
      ELSE IF max.t = "number" /\ Twice(value) > Twice(max) THEN "exceeds maximum value"
      ELSE IF Truthy(integerOnly) /\ ~IsInteger(value) THEN "must be an integer."
      ELSE ""

NumberFieldValidation(obj, inputs) ==
  IF IsArray(inputs)
  THEN LET Bad(field) == Get(obj, PropKey(field)).t # "number"
           j == FirstBad([n \in 1..Len(inputs.c) |-> Bad(inputs.c[n])])
       IN  IF j > 0
           THEN Fail("is not a number.", <<PropKey(inputs.c[j])>>, <<>>)
           ELSE Pass
  ELSE IF ~Destructurable(inputs) THEN Throw(ErrDestructure)
  ELSE LET fields == Get(inputs, "fields")
           min == Get(inputs, "min")
           max == Get(inputs, "max")
           integerOnly == GetOr(inputs, "integerOnly", Bool(FALSE))
           Why(field) == NumberFieldStructured(obj, field, min, max, integerOnly)
           Bad(field) == Why(field) # ""
           j == FirstBad([n \in 1..Len(IterItems(fields)) |-> Bad(IterItems(fields)[n])])
       IN  IF ~Iterable(fields) THEN Throw(ErrNotIterable)
           ELSE IF j = 0 THEN Pass
           ELSE Fail(Why(IterItems(fields)[j]), <<PropKey(IterItems(fields)[j])>>, <<>>)

BooleanFieldValidation(obj, inputs) ==
  LET boolFields == AsList(inputs)
      Bad(field) == Get(obj, PropKey(field)).t # "boolean"
      j == FirstBad([n \in 1..Len(boolFields) |-> Bad(boolFields[n])])
  IN  IF j > 0
      THEN Fail("is not a boolean.", <<PropKey(boolFields[j])>>, <<>>)
      ELSE Pass

\* sub occurs in cs as a contiguous run: String.prototype.includes
IsSubSeq(sub, cs) ==
  \E a \in 0..Len(cs) :
    a + Len(sub) <= Len(cs) /\ \A j \in 1..Len(sub) : cs[a + j] = sub[j]

\* list.includes(x): an array by ===, a string by substring; anything else
\* has no includes method
CanInclude(list) == list.t \in {"array", "string"}

Includes(list, x) ==
  IF list.t = "array" THEN \E j \in 1..Len(list.c) : StrictEq(list.c[j], x)
  ELSE IsSubSeq(ToChars(x), Chars(list.s))

ErrNoIncludes == "TypeError: Cannot read properties of undefined (reading 'includes')"

ErrNoJoin == "TypeError: allowedTypes.join is not a function"

ArrayValidationItem(obj, inputs) ==
  IF ~Destructurable(inputs) THEN Throw(ErrDestructure)
  ELSE
  LET field == PropKey(Get(inputs, "field"))
      minLength == Get(inputs, "minLength")
      maxLength == Get(inputs, "maxLength")
      enforceUnique == Get(inputs, "enforceUnique")
      arr == Get(obj, field)
      length == Len(arr.c)
      \* new Set(arr).size !== arr.length
      duplicate == \E a, b \in 1..length : a < b /\ StrictEq(arr.c[a], arr.c[b])
  IN  IF ~IsArray(arr) THEN Fail("is not an array.", <<field>>, <<>>)
      ELSE IF minLength.t = "number" /\ 2 * length < Twice(minLength)
      THEN Fail("length is below minimum", <<field>>, <<>>)
      ELSE IF maxLength.t = "number" /\ 2 * length > Twice(maxLength)
      THEN Fail("length exceeds maximum", <<field>>, <<>>)
      ELSE IF Truthy(enforceUnique) /\ duplicate
      THEN Fail("contains duplicate elements.", <<field>>, <<>>)
      ELSE Pass

NestedObjectValidation(obj, inputs) ==
  IF ~Destructurable(inputs) THEN Throw(ErrDestructure)
  ELSE
  LET field == PropKey(Get(inputs, "field"))
      requiredFields == Get(inputs, "requiredFields")
      nestedObj == Get(obj, field)
      Missing(rf) == ~HasOwn(nestedObj, PropKey(rf))
      j == FirstBad([n \in 1..Len(IterItems(requiredFields)) |-> Missing(IterItems(requiredFields)[n])])
  IN  IF nestedObj.t # "object"
      THEN Fail("is not a valid nested object.", <<field>>, <<>>)
      ELSE IF ~Iterable(requiredFields) THEN Throw(ErrNotIterable)
      ELSE IF j > 0
      THEN Fail("Missing nested field in object",
                <<PropKey(IterItems(requiredFields)[j]), field>>, <<>>)
      ELSE Pass

\* obj[field] || ""
OrEmpty(v) == IF Truthy(v) THEN v ELSE Str("")

PatternMatching(obj, inputs) ==
  IF ~Destructurable(inputs) THEN Throw(ErrDestructure)
  ELSE
  LET field == PropKey(Get(inputs, "field"))
      pattern == Get(inputs, "pattern")
      val == OrEmpty(Get(obj, field))
  IN  IF RegExpThrows(pattern) THEN Throw(ErrBadRegExp)
      ELSE IF ~RegExpTest(pattern, ToChars(val))
      THEN Fail("does not match pattern:", <<field, PropKey(pattern)>>, <<>>)
      ELSE Pass

EnumerationValidation(obj, inputs) ==
  IF ~Destructurable(inputs) THEN Throw(ErrDestructure)
  ELSE
  LET field == PropKey(Get(inputs, "field"))
      allowedValues == Get(inputs, "allowedValues")
      val == Get(obj, field)
  IN  IF ~CanInclude(allowedValues) THEN Throw(ErrNoIncludes)
      ELSE IF ~Includes(allowedValues, val)
      THEN Fail("has invalid value. Allowed:", <<field, PropKey(val)>>, <<>>)
      ELSE Pass

\* !isNaN(new Date(s).getTime()), for the date strings of the model
ParsesAsDate(s) == s \in {"2024-01-31", "2024-01-31T10:00:00Z"}

DateFieldValidation(obj, inputs) ==
  IF ~Destructurable(inputs) THEN Throw(ErrDestructure)
  ELSE
  LET field == PropKey(Get(inputs, "field"))
      validateActualDate == Get(inputs, "validateActualDate")
      dateValue == Get(obj, field)
  IN  IF dateValue.t # "string" THEN Fail("is not a string date.", <<field>>, <<>>)
      ELSE IF Truthy(validateActualDate) /\ ~ParsesAsDate(dateValue.s)
      THEN Fail("is not a valid date:", <<field, dateValue.s>>, <<>>)
      ELSE Pass

\* Nullability with an absent nonNullable field counted as null
NullabilityAbsentIsNull(obj, inputs) ==
  IF ~Destructurable(inputs) THEN Throw(ErrDestructure)
  ELSE
  LET nonNullable == GetOr(inputs, "nonNullable", Arr(<<>>))
      nullable == GetOr(inputs, "nullable", Arr(<<>>))
      IsNull(field) == Get(obj, PropKey(field)).t \in {"null", "undefined"}
      j == FirstBad([n \in 1..Len(IterItems(nonNullable)) |-> IsNull(IterItems(nonNullable)[n])])
      NotNull(field) ==
        HasOwn(obj, PropKey(field)) /\ Get(obj, PropKey(field)).t # "null"
      m == FirstBad([n \in 1..Len(IterItems(nullable)) |-> NotNull(IterItems(nullable)[n])])
  IN  IF ~Iterable(nonNullable) THEN Throw(ErrNotIterable)
      ELSE IF j > 0
      THEN Fail("should not be null.", <<PropKey(IterItems(nonNullable)[j])>>, <<>>)
      ELSE IF ~Iterable(nullable) THEN Throw(ErrNotIterable)
      ELSE IF m > 0
      THEN Fail("must be null if present.", <<PropKey(IterItems(nullable)[m])>>, <<>>)
      ELSE Pass

Nullability(obj, inputs) ==
  IF ~Destructurable(inputs) THEN Throw(ErrDestructure)
  ELSE
  LET nonNullable == GetOr(inputs, "nonNullable", Arr(<<>>))
      nullable == GetOr(inputs, "nullable", Arr(<<>>))
      IsNull(field) == Get(obj, PropKey(field)).t = "null"
      j == FirstBad([n \in 1..Len(IterItems(nonNullable)) |-> IsNull(IterItems(nonNullable)[n])])
      NotNull(field) ==
        HasOwn(obj, PropKey(field)) /\ Get(obj, PropKey(field)).t # "null"
      m == FirstBad([n \in 1..Len(IterItems(nullable)) |-> NotNull(IterItems(nullable)[n])])
  IN  IF ~Iterable(nonNullable) THEN Throw(ErrNotIterable)
      ELSE IF j > 0
      THEN Fail("should not be null.", <<PropKey(IterItems(nonNullable)[j])>>, <<>>)
      ELSE IF ~Iterable(nullable) THEN Throw(ErrNotIterable)
      ELSE IF m > 0
      THEN Fail("must be null if present.", <<PropKey(IterItems(nullable)[m])>>, <<>>)
      ELSE Pass

DefaultValues(obj, inputs) ==
  IF ~Destructurable(inputs) THEN Throw(ErrDestructure)
  ELSE
  LET field == PropKey(Get(inputs, "field"))
  IN  IF ~HasOwn(obj, field)
      THEN Fail("Missing field. Expected a default of",
                <<field, PropKey(Get(inputs, "defaultValue"))>>, <<>>)
      ELSE Pass

\* Strict Validation with an absent allowedFields read as "no restriction"
StrictValidationOpenByDefault(obj, inputs) ==
  IF ~Destructurable(inputs) THEN Throw(ErrDestructure)
  ELSE IF Get(inputs, "allowedFields").t = "undefined" THEN Pass
  ELSE NoAdditionalFields(obj, Get(inputs, "allowedFields"))

\* new Set(null) is the empty set; undefined has become [] by the default
StrictValidation(obj, inputs) ==
  IF ~Destructurable(inputs) THEN Throw(ErrDestructure)
  ELSE
  LET allowedFields == GetOr(inputs, "allowedFields", Arr(<<>>))
      allowedSet == IF allowedFields.t = "null" THEN {} ELSE Range(IterItems(allowedFields))
      Extra(key) == Str(key) \notin allowedSet
      j == FirstBad([n \in 1..Len(Keys(obj)) |-> Extra(Keys(obj)[n])])
  IN  IF ~Iterable(allowedFields) /\ allowedFields.t # "null" THEN Throw(ErrNotIterable)
      ELSE IF j > 0
      THEN Fail("Strict validation failed: unexpected field", <<Keys(obj)[j]>>, <<>>)
      ELSE Pass

CustomLogic(obj, inputs) ==
  IF ~Destructurable(inputs) THEN Throw(ErrDestructure)
  ELSE
  LET ifField == PropKey(Get(inputs, "ifField"))
      thenField == PropKey(Get(inputs, "thenField"))
  IN  IF Truthy(Get(obj, ifField)) /\ Get(obj, thenField).t = "undefined"
      THEN Fail("If is present, must be set.", <<ifField, thenField>>, <<>>)
      ELSE Pass

DataTransformation(obj, inputs) ==
  IF ~Destructurable(inputs) THEN Throw(ErrDestructure)
  ELSE
  LET field == PropKey(Get(inputs, "field"))
      expectedTypeAfterCoercion == Get(inputs, "expectedTypeAfterCoercion")
  IN  IF ~TypeIs(Get(obj, field), expectedTypeAfterCoercion)
      THEN Fail("is not coerced to type", <<field, PropKey(expectedTypeAfterCoercion)>>, <<>>)
      ELSE Pass

MultiTypeFields(obj, inputs) ==
  IF ~Destructurable(inputs) THEN Throw(ErrDestructure)
  ELSE
  LET field == PropKey(Get(inputs, "field"))
      allowedTypes == Get(inputs, "allowedTypes")
      actualType == TypeOf(Get(obj, field))
  IN  IF ~CanInclude(allowedTypes) THEN Throw(ErrNoIncludes)
      ELSE IF Includes(allowedTypes, Str(actualType)) THEN Pass
      ELSE IF ~IsArray(allowedTypes) THEN Throw(ErrNoJoin)
      ELSE Fail("has type but must be one of", <<field, actualType>>, <<>>)

ErrorMessaging(obj, inputs) ==
  IF ~Destructurable(inputs) THEN Throw(ErrDestructure)
  ELSE
  LET errorField == PropKey(GetOr(inputs, "errorField", Str("error")))
      messageContains == Get(inputs, "messageContains")
      errMsg == Get(obj, errorField)
  IN  IF errMsg.t # "string"
      THEN Fail("Expected a string in but got", <<errorField, TypeOf(errMsg)>>, <<>>)
      ELSE IF Truthy(messageContains) /\ ~IsSubSeq(ToChars(messageContains), Chars(errMsg.s))
      THEN Fail("Error message does not contain:", <<PropKey(messageContains), errMsg.s>>, <<>>)
      ELSE Pass

ReadOnlyFields(obj, inputs) ==
  LET readOnlyFields == AsList(inputs)
      Present(roField) == HasOwn(obj, PropKey(roField))
      j == FirstBad([n \in 1..Len(readOnlyFields) |-> Present(readOnlyFields[n])])
  IN  IF j > 0
      THEN Fail("Read-only field should not be present or changed.",
                <<PropKey(readOnlyFields[j])>>, <<>>)
      ELSE Pass

DisallowedPattern(obj, inputs) ==
  IF ~Destructurable(inputs) THEN Throw(ErrDestructure)
  ELSE
  LET field == PropKey(Get(inputs, "field"))
      disallowedPattern == Get(inputs, "disallowedPattern")
  IN  IF RegExpThrows(disallowedPattern) THEN Throw(ErrBadRegExp)
      ELSE IF RegExpTest(disallowedPattern, ToChars(OrEmpty(Get(obj, field))))
      THEN Fail("has disallowed characters matching:",
                <<field, PropKey(disallowedPattern)>>, <<>>)
      ELSE Pass

(***************************************************************************)
(* case "Custom": the part of it that runs once `await import(path)` has   *)
(* settled.  Everything here is inside the case's own try/catch.           *)
(***************************************************************************)
\* what `customModule.validate(obj, rest)` evaluates to: the call is not
\* awaited, so an async validator hands back its Promise
ValidateCallValue(module) ==
  IF module.call = "promise" THEN PromiseObject ELSE module.result

\* result.error || 'Custom assertion script failed.'
CustomFailMessage(error) ==
  IF Truthy(error) THEN Literal(error.s)
  ELSE Msg("Custom assertion script failed.", <<>>, <<>>)

\* lines 625-649 for a given module
CustomOutcome(module) ==
  LET result == ValidateCallValue(module)
  IN  IF ~module.load
      THEN Fail("Error running custom assertion script:", <<ErrModuleNotFound>>, <<>>)
      ELSE IF module.export # "function"
      THEN Fail("Custom script does not export a 'validate' function.", <<>>, <<>>)
      ELSE IF module.call = "throw"
      THEN Fail("Error running custom assertion script:", <<ErrValidatorThrew>>, <<>>)
      ELSE IF ~Truthy(result) \/ Get(result, "status").t # "boolean"
                \/ Get(result, "error").t # "string"
      THEN Fail("Custom script returned invalid structure. Must be { status: boolean, error: string }.",
                <<>>, <<>>)
      ELSE IF Get(result, "status").b THEN Pass
      ELSE Return(FALSE, CustomFailMessage(Get(result, "error")))

\* the validators of the model answer the same for every record and config
CustomAfterImport(obj, inputs) == CustomOutcome(ModuleAt(Get(inputs, "path")))

\* the validator was called and returned a promise that is still pending
StartsAsyncValidator(inputs) ==
  LET module == ModuleAt(Get(inputs, "path"))
  IN  module.load /\ module.export = "function" /\ module.call = "promise"

(***************************************************************************)
(* validateObjectLevel up to its first await: every built-in case runs to  *)
(* its return (or throws); case "Custom" destructures inputs and parks at  *)
(* `await import(path)`.                                                   *)
(***************************************************************************)
validateObjectLevel(obj, assertion, inputs) ==
  CASE assertion = "Schema Compliance" -> SchemaCompliance(obj, inputs)
    [] assertion = "Required Fields" -> RequiredFields(obj, inputs)
    [] assertion = "No Additional Fields" -> NoAdditionalFields(obj, inputs)
    [] assertion = "String Field Validation" -> StringFieldValidation(obj, inputs)
    [] assertion = "Number Field Validation" -> NumberFieldValidation(obj, inputs)
    [] assertion = "Boolean Field Validation" -> BooleanFieldValidation(obj, inputs)
    [] assertion = "Array Validation" -> ArrayValidationItem(obj, inputs)
    [] assertion = "Nested Object Validation" -> NestedObjectValidation(obj, inputs)
    [] assertion = "Pattern Matching" -> PatternMatching(obj, inputs)
    [] assertion = "Enumeration Validation" -> EnumerationValidation(obj, inputs)
    [] assertion = "Date Field Validation" -> DateFieldValidation(obj, inputs)
    [] assertion = "Nullability" -> Nullability(obj, inputs)
    [] assertion = "Default Values" -> DefaultValues(obj, inputs)
    [] assertion = "Strict Validation" -> StrictValidation(obj, inputs)
    [] assertion = "Custom Logic" -> CustomLogic(obj, inputs)
    [] assertion = "Data Transformation" -> DataTransformation(obj, inputs)
    [] assertion = "Multi-Type Fields" -> MultiTypeFields(obj, inputs)
    [] assertion = "Error Messaging" -> ErrorMessaging(obj, inputs)
    [] assertion = "Read-Only Fields" -> ReadOnlyFields(obj, inputs)
    [] assertion = "Disallowed Pattern" -> DisallowedPattern(obj, inputs)
    [] assertion = "Custom" ->
         (IF ~Destructurable(inputs) THEN Throw(ErrDestructure) ELSE Await)
    [] OTHER -> Return(TRUE, Msg("Unrecognized assertion type. Skipping.", <<assertion>>, <<>>))

\* validateObjectLevel run to its end: what its promise settles to
validateObjectLevelSettled(obj, assertion, inputs) ==
  IF validateObjectLevel(obj, assertion, inputs).kind = "await"
  THEN CustomAfterImport(obj, inputs)
  ELSE validateObjectLevel(obj, assertion, inputs)

(***************************************************************************)
(* The run.                                                                *)
(*   responseData, assertions  the arguments of runAssertions              *)
(*   pc       where runAssertions is: "loop" (about to take the next       *)
(*            assertion), "import" (parked in `await validateObjectLevel`  *)
(*            while that call waits for import(path)), "done" (returned)   *)
(*   i        how many assertions the for..of loop has finished with      *)
(*   results  the results pushed so far                                    *)
(*   tasks    per assertion, the validateOnArrayItems call started for it  *)
(*   queue    the microtask queue: calls whose awaited promise has settled *)
(*   inflight per assertion, how many async validators it called are not   *)
(*            yet settled                                                  *)
(*   unhandled the calls whose promise was rejected with nobody awaiting   *)
(*   call     which call of runAssertions on these arguments is running     *)
(*   firstResults  what the first call returned, once a second one started  *)
(*   suite    the sendHTTPRequest call around runAssertions, when there is  *)
(*            one (see "The suite run" below)                               *)
(***************************************************************************)
VARIABLES responseData, assertions, pc, i, results, tasks, queue, inflight, unhandled,
          call, firstResults, suite

vars == <<responseData, assertions, pc, i, results, tasks, queue, inflight, unhandled,
          call, firstResults, suite>>

MaxSpecs == 2

MaxItems == 2

\* all sequences over S of length at most n
SeqsUpTo(S, n) == UNION {[1..m -> S] : m \in 0..n}

AssertionObj(assertion, inputs) == [assertion |-> assertion, inputs |-> inputs]

CustomWith(path) == AssertionObj("Custom", Obj(<<KV("path", Str(path))>>))

RecordPool == {Obj(<<KV("a", Num(1))>>), Obj(<<KV("a", Str("x"))>>)}

ElementPool == {Obj(<<KV("a", Num(1))>>), Num(5)}

BuiltinPool ==
  { AssertionObj("Array Validation", Obj(<<KV("minLength", Num(1))>>)),
    AssertionObj("Array Validation", Undef),
    AssertionObj("Required Fields", Arr(<<Str("a")>>)),
    AssertionObj("Number Field Validation", Arr(<<Str("a")>>)),
    AssertionObj("Pattern Matching", Obj(<<KV("field", Str("a")), KV("pattern", Str("["))>>)),
    AssertionObj("Custom Validators",
                 Obj(<<KV("field", Str("a")), KV("disallowedPattern", Str("[!@#$%^&*()]+"))>>)) }

CustomPool ==
  { CustomWith("./ok.js"), CustomWith("./bad.js"), CustomWith("./empty_error.js"),
    CustomWith("./gone.js"), CustomWith("./no_export.js"), CustomWith("./not_callable.js"),
    CustomWith("./no_status.js"), CustomWith("./no_error.js"), CustomWith("./returns_null.js"),
    CustomWith("./throws.js"), CustomWith("./async_ok.js"), CustomWith("./async_bad.js"),
    AssertionObj("Custom", Undef),
    AssertionObj("Array Validation", Obj(<<KV("minLength", Num(1))>>)) }

NoTask ==
  [state |-> "none", i |-> 0, failedIndices |-> <<>>, subMessages |-> <<>>, out |-> Pass]

\* runAssertions is called with some response and some list of assertions
InitOver(responses, lists) ==
  /\ responseData \in responses
  /\ assertions \in lists
  /\ pc = "loop"
  /\ i = 0
  /\ results = <<>>
  /\ tasks = [k \in 1..Len(assertions) |-> NoTask]
  /\ queue = <<>>
  /\ inflight = [k \in 1..Len(assertions) |-> 0]
  /\ unhandled = {}
  /\ call = "first"
  /\ firstResults = <<>>
  /\ suite = [pc |-> "idle"]

InitWith(responses, pool) == InitOver(responses, SeqsUpTo(pool, MaxSpecs))

Init ==
  InitWith(RecordPool \cup {Arr(items) : items \in SeqsUpTo(ElementPool, MaxItems)},
           BuiltinPool \cup {CustomWith("./bad.js"), CustomWith("./async_ok.js")})

\* the runs a caller repeats
InitTwice ==
  InitOver(RecordPool \cup {Arr(items) : items \in SeqsUpTo(ElementPool, MaxItems)},
           SeqsUpTo({ AssertionObj("Array Validation", Obj(<<KV("minLength", Num(1))>>)),
                      AssertionObj("Required Fields", Arr(<<Str("a")>>)),
                      AssertionObj("Pattern Matching",
                                   Obj(<<KV("field", Str("a")), KV("pattern", Str("["))>>)) },
                    MaxSpecs)
             \cup {<<CustomWith("./async_ok.js")>>})

\* the configurations of Array Validation: bounds that are numbers, absent
\* or not numbers, a minimum above the maximum, and the uniqueness flag
ArrayValidationPool ==
  { AssertionObj("Array Validation", Obj(entries)) : entries \in
      { <<>>,
        <<KV("minLength", Num(1))>>,
        <<KV("maxLength", Num(1))>>,
        <<KV("minLength", Num(1)), KV("maxLength", Num(2))>>,
        <<KV("minLength", Num(3)), KV("maxLength", Num(1))>>,
        <<KV("minLength", Str("3")), KV("maxLength", Null)>>,
        <<KV("enforceUnique", Bool(TRUE))>>,
        <<KV("minLength", Num(1)), KV("enforceUnique", Bool(TRUE))>> } }

\* the runs that exercise the checks on the collection as a whole
InitArray ==
  InitOver({Obj(<<KV("a", Num(1))>>)}
             \cup {Arr(items) : items \in SeqsUpTo(ElementPool, MaxItems)},
           SeqsUpTo(ArrayValidationPool, MaxSpecs)
             \cup {<<AssertionObj("Required Fields", Arr(<<Str("a")>>))>>,
                   <<CustomWith("./async_ok.js")>>})

\* records the per-record rules are run on, alone or as elements
RuleRecords ==
  { Obj(<<>>),
    Obj(<<KV("id", Num(1))>>),
    Obj(<<KV("id", Str("1"))>>),
    Obj(<<KV("id", Null)>>),
    Obj(<<KV("id", Num(1)), KV("name", Str("x"))>>),
    Obj(<<KV("id", Num(1)), KV("name", Undef)>>),
    Obj(<<KV("id", Num(1)), KV("extra", Bool(TRUE))>>),
    Obj(<<KV("id", Num(1)), KV("note", Null)>>),
    Obj(<<KV("id", Num(1)), KV("note", Str("x"))>>),
    Obj(<<KV("id", Null), KV("note", Str("x"))>>),
    Obj(<<KV("price", NumHalf(10))>>),
    Obj(<<KV("price", Num(10))>>),
    Obj(<<KV("price", Num(21))>>),
    Obj(<<KV("price", NumHalf(21))>>),
    Obj(<<KV("price", Str("x"))>>),
    Obj(<<KV("price", Num(10)), KV("qty", NumHalf(1))>>),
    Obj(<<KV("a", Str(""))>>),
    Obj(<<KV("a", Str(" "))>>),
    Obj(<<KV("a", Str(" a "))>>),
    Obj(<<KV("a", Str("x")), KV("b", Str("ab"))>>),
    Obj(<<KV("a", Str("x")), KV("b", Num(1))>>) }

RuleElements ==
  {Obj(<<KV("price", NumHalf(10))>>), Obj(<<KV("price", Num(10))>>), Str(" ")}

\* a list of field names
Names(names) == Arr([n \in 1..Len(names) |-> Str(names[n])])

RequiredFieldsPool ==
  { AssertionObj("Required Fields", inputs) : inputs \in
      { Names(<<>>), Names(<<"id">>), Names(<<"id", "name">>), Names(<<"name", "id">>),
        Str("id"), Str("value") } }

NumberFieldPool ==
  { AssertionObj("Number Field Validation", inputs) : inputs \in
      { Names(<<"price">>), Names(<<"price", "qty">>), Names(<<>>),
        Obj(<<KV("fields", Names(<<"price">>))>>),
        Obj(<<KV("fields", Names(<<"price", "qty">>)), KV("integerOnly", Bool(FALSE))>>),
        Obj(<<KV("fields", Names(<<"price">>)), KV("integerOnly", Bool(TRUE))>>),
        Obj(<<KV("fields", Names(<<"price">>)), KV("max", Num(20)),
              KV("integerOnly", Bool(TRUE))>>),
        Obj(<<KV("fields", Names(<<"price">>)), KV("min", Num(10))>>),
        Obj(<<KV("fields", Names(<<"price">>)), KV("min", Num(11)), KV("max", Num(20))>>),
        Obj(<<KV("fields", Names(<<"price", "qty">>)), KV("max", Num(10)),
              KV("integerOnly", Bool(TRUE))>>) } }

SchemaPool ==
  { AssertionObj("Schema Compliance", inputs) : inputs \in
      { Obj(<<KV("schema", Obj(<<KV("id", Str("number"))>>)), KV("strict", Bool(TRUE))>>),
        Obj(<<KV("schema", Obj(<<KV("id", Str("number"))>>))>>),
        Obj(<<KV("schema", Obj(<<KV("id", Str("number"))>>)), KV("strict", Bool(FALSE))>>),
        Obj(<<KV("schema", Obj(<<KV("id", Str("number")), KV("name", Str("string"))>>)),
              KV("strict", Bool(TRUE))>>),
        Obj(<<KV("schema", Obj(<<KV("id", Str("object"))>>)), KV("strict", Bool(TRUE))>>),
        Obj(<<KV("schema", Obj(<<>>)), KV("strict", Bool(TRUE))>>) } }

NullabilityPool ==
  { AssertionObj("Nullability", inputs) : inputs \in
      { Obj(<<>>),
        Obj(<<KV("nonNullable", Names(<<"id">>))>>),
        Obj(<<KV("nonNullable", Names(<<"name", "id">>))>>),
        Obj(<<KV("nullable", Names(<<"note">>))>>),
        Obj(<<KV("nonNullable", Names(<<"id">>)), KV("nullable", Names(<<"note">>))>>),
        Obj(<<KV("nonNullable", Names(<<"note">>)), KV("nullable", Names(<<"id", "note">>))>>) } }

StringFieldPool ==
  { AssertionObj("String Field Validation", inputs) : inputs \in
      { Names(<<>>), Names(<<"a">>), Names(<<"a", "b">>), Names(<<"value">>),
        Obj(<<KV("fields", Names(<<"a">>))>>),
        Obj(<<KV("fields", Names(<<"a", "b">>)), KV("minLength", Num(1))>>) } }

\* the runs that exercise the rules on a record: one assertion per run
InitRules ==
  InitOver(RuleRecords \cup {Arr(items) : items \in SeqsUpTo(RuleElements, MaxItems)},
           { <<a>> : a \in RequiredFieldsPool \cup NumberFieldPool \cup SchemaPool
                             \cup NullabilityPool \cup StringFieldPool
                             \cup { CustomWith("./async_ok.js"),
                                    AssertionObj("Array Validation",
                                                 Obj(<<KV("minLength", Num(1))>>)) } })

\* assertions whose inputs are absent or lack what the kind reads
MisconfiguredPool ==
  { AssertionObj("Schema Compliance", Obj(<<>>)),
    AssertionObj("Schema Compliance", Obj(<<KV("schema", Str("number"))>>)),
    AssertionObj("Schema Compliance", Undef),
    AssertionObj("String Field Validation", Obj(<<KV("minLength", Num(1))>>)),
    AssertionObj("Number Field Validation", Obj(<<KV("min", Num(1))>>)),
    AssertionObj("Number Field Validation", Undef),
    AssertionObj("Nullability", Undef),
    AssertionObj("Array Validation", Undef) }

\* the runs with a misconfigured assertion, next to a well-formed one
InitConfig ==
  InitOver({Obj(<<KV("a", Num(1))>>)}
             \cup {Arr(items) : items \in SeqsUpTo({Obj(<<KV("a", Num(1))>>)}, MaxItems)},
           SeqsUpTo(MisconfiguredPool
                      \cup {AssertionObj("Required Fields", Arr(<<Str("a")>>))}, MaxSpecs)
             \cup {<<CustomWith("./async_ok.js")>>})

\* assertions as the documentation writes them
DocumentedPool ==
  { AssertionObj("Custom Validators",
                 Obj(<<KV("field", Str("username")),
                       KV("disallowedPattern", Str("[!@#$%^&*()]+"))>>)),
    AssertionObj("Disallowed Pattern",
                 Obj(<<KV("field", Str("username")),
                       KV("disallowedPattern", Str("[!@#$%^&*()]+"))>>)),
    AssertionObj("Custom Assertion Script", Obj(<<KV("scriptPath", Str("./bad.js"))>>)),
    AssertionObj("Read-Only Fields", Names(<<"id", "createdAt">>)),
    AssertionObj("Array Validation", Obj(<<KV("minLength", Num(1))>>)),
    CustomWith("./bad.js"),
    CustomWith("./async_ok.js") }

DocumentedRecords ==
  {Obj(<<KV("username", Str("a@"))>>), Obj(<<KV("username", Str("ab"))>>)}

\* the runs over the documented examples: one assertion per run
InitDocs ==
  InitOver(DocumentedRecords
             \cup {Arr(items) : items \in SeqsUpTo(DocumentedRecords, MaxItems)},
           {<<a>> : a \in DocumentedPool})

\* the runs that exercise the custom check bridge
\* the runs that fan out over collections of a record, scalars, null and a
\* nested array: one assertion per run
InitItems ==
  InitOver(RecordPool \cup
             {Arr(items) : items \in SeqsUpTo({Obj(<<KV("a", Num(1))>>), Num(5), Str("x"), Null,
                                               Arr(<<Num(1)>>)}, MaxItems)},
           { <<a>> : a \in { AssertionObj("Required Fields", Names(<<"value">>)),
                             AssertionObj("Required Fields", Names(<<"a">>)),
                             AssertionObj("Number Field Validation", Names(<<"value">>)),
                             CustomWith("./async_ok.js"),
                             AssertionObj("Array Validation",
                                          Obj(<<KV("minLength", Num(1))>>)) } })

\* the records put to No Additional Fields and Strict Validation
FieldRecords ==
  { Obj(<<>>), Obj(<<KV("id", Num(1))>>), Obj(<<KV("id", Num(1)), KV("name", Str("x"))>>),
    Obj(<<KV("name", Str("x")), KV("extra", Bool(TRUE))>>) }

\* the runs that put one list to No Additional Fields and to Strict
\* Validation, and Strict Validation without a list
InitFields ==
  InitOver(FieldRecords \cup {Arr(items) : items \in SeqsUpTo(FieldRecords \cup {Num(5)}, MaxItems)},
           { << AssertionObj("No Additional Fields", L),
                AssertionObj("Strict Validation", Obj(<<KV("allowedFields", L)>>)),
                AssertionObj("Strict Validation", Obj(<<>>)) >> :
               L \in {Names(<<>>), Names(<<"id">>), Names(<<"id", "name">>)} }
           \cup { <<AssertionObj("Strict Validation", Obj(<<KV("allowedFields", Null)>>))>>,
                  <<CustomWith("./async_ok.js")>>,
                  <<AssertionObj("Array Validation", Obj(<<KV("minLength", Num(1))>>))>> })

InitCustom ==
  InitWith({Obj(<<KV("a", Num(1))>>)}
             \cup {Arr(items) : items \in SeqsUpTo({Obj(<<KV("a", Num(1))>>)}, MaxItems)},
           CustomPool)

(***************************************************************************)
(* validateOnArrayItems, as the steps of one call.                         *)
(***************************************************************************)
\* typeof item !== "object" || item === null: the item is wrapped
Wrapped(item) ==
  IF TypeOf(item) # "object" \/ item.t = "null" THEN Obj(<<KV("value", item)>>) ELSE item

\* arrayData with its element at index replaced by the record handed to the
\* check
ArrayWrappedInPlace(arrayData, index) ==
  IF index < Len(arrayData.c)
  THEN Arr([arrayData.c EXCEPT ![index + 1] = Wrapped(@)])
  ELSE arrayData

\* arrayData once the loop body has taken the element at index (0-based):
\* the body reads arrayData[i] and writes the wrap to the local `wrapped`,
\* never to arrayData
ArrayAfterItem(arrayData, index) == arrayData

\* the return statement of validateOnArrayItems
FanOutResult(task) ==
  IF Len(task.failedIndices) > 0
  THEN Return(FALSE, [tag |-> "Item(s) at index failed. Reasons:", strs |-> <<>>,
                      nums |-> <<>>, idx |-> task.failedIndices,
                      subs |-> task.subMessages])
  ELSE Pass

\* the call runs from the top of its loop, at index task.i, to its next
\* await or to its return
FanOutRun(task, arrayData, assertion, inputs) ==
  IF task.i >= Len(arrayData.c)
  THEN [task EXCEPT !.state = "fulfilled", !.out = FanOutResult(task)]
  ELSE LET o == validateObjectLevel(Wrapped(arrayData.c[task.i + 1]), assertion, inputs)
       IN  IF o.kind = "await"
           THEN [task EXCEPT !.state = "importing"]
           ELSE [task EXCEPT !.state = "parked", !.out = o]

\* the call resumes after `await validateObjectLevel(...)` with outcome o
FanOutResume(task, o, arrayData, assertion, inputs) ==
  IF o.kind = "throw"
  THEN [task EXCEPT !.state = "rejected", !.out = o]
  ELSE LET noted ==
             IF o.pass THEN task
             ELSE [task EXCEPT !.failedIndices = Append(@, task.i),
                               !.subMessages = Append(@, [index |-> task.i, msg |-> o.msg])]
       IN  FanOutRun([noted EXCEPT !.i = @ + 1], arrayData, assertion, inputs)

(***************************************************************************)
(* runAssertions, one action per way through the body of its loop.         *)
(***************************************************************************)
\* the assertion the loop is at (1-based), and the loop's position
Current == i + 1

\* the validateOnArrayItems call this call of runAssertions starts for
\* assertion k: the calls of an earlier runAssertions keep their own
TaskOf(k) == IF call = "second" THEN Len(assertions) + k ELSE k

\* the assertion a validateOnArrayItems call was started for
SpecOf(task) == ((task - 1) % Len(assertions)) + 1

AtLoop == pc = "loop" /\ i < Len(assertions)

\* PushResult onto a list that outlives the call: a second call starts from
\* what the first one left
PushResultOntoShared(rs, assertion, passed, message) ==
  Append(IF call = "second" /\ rs = <<>> THEN firstResults ELSE rs,
         [assertion |-> assertion, passed |-> passed, message |-> message])

\* PushResult with the push reached only on the passing path
PushResultOnlyPassed(rs, assertion, passed, message) ==
  IF passed
  THEN Append(rs, [assertion |-> assertion, passed |-> passed, message |-> message])
  ELSE rs

\* results.push({ assertion, passed, message })
PushResult(rs, assertion, passed, message) ==
  Append(rs, [assertion |-> assertion, passed |-> passed, message |-> message])

\* passed and message after `const { pass, msg } = <o>; if (!pass) {...}`
\* and after the catch block when the call threw
Verdict(o, assertion) ==
  IF o.kind = "throw"
  THEN [passed |-> FALSE, message |-> Msg("Error during assertion", <<assertion, o.err>>, <<>>)]
  ELSE IF ~o.pass THEN [passed |-> FALSE, message |-> o.msg]
  ELSE [passed |-> TRUE, message |-> PassMsg]

\* a message read from a property of a value
AsMessage(v) == IF v.t = "undefined" THEN NoMessage ELSE Literal(v.s)

\* passed and message after `const { pass, msg } = validateOnArrayItems(...)`:
\* the call is not awaited, so pass and msg are read off its Promise
VerdictOfPromise(promise) ==
  IF ~Truthy(Get(promise, "pass"))
  THEN [passed |-> FALSE, message |-> AsMessage(Get(promise, "msg"))]
  ELSE [passed |-> TRUE, message |-> PassMsg]

\* the else branch of the classification
VerdictUnclassified(assertion) ==
  [passed |-> TRUE, message |-> Msg("Unrecognized assertion type. Skipping.", <<assertion>>, <<>>)]

Push(v) ==
  results' = PushResult(results, assertions[Current].assertion, v.passed, v.message)

\* isArray, arrayCheck: validateArrayLevel
RunArrayLevel ==
  /\ AtLoop
  /\ IsArray(responseData)
  /\ classifyAssertion(assertions[Current].assertion).arrayCheck
  /\ Push(Verdict(validateArrayLevel(responseData, assertions[Current].assertion,
                                     assertions[Current].inputs),
                  assertions[Current].assertion))
  /\ i' = i + 1
  /\ UNCHANGED <<suite, call, firstResults, responseData, assertions, pc, tasks, queue, inflight, unhandled>>

\* isArray, not arrayCheck: validateOnArrayItems is called and runs to its
\* first await; the loop goes on with the Promise it returned
RunFanOut ==
  /\ AtLoop
  /\ IsArray(responseData)
  /\ ~classifyAssertion(assertions[Current].assertion).arrayCheck
  /\ IF classifyAssertion(assertions[Current].assertion).objectCheck
     THEN LET started == FanOutRun([NoTask EXCEPT !.state = "running"], responseData,
                                   assertions[Current].assertion, assertions[Current].inputs)
          IN  /\ tasks' = [tasks EXCEPT ![TaskOf(Current)] = started]
              /\ queue' = IF started.state = "parked"
                          THEN Append(queue, TaskOf(Current))
                          ELSE queue
              /\ responseData' = ArrayAfterItem(responseData, 0)
              /\ Push(VerdictOfPromise(PromiseObject))
     ELSE /\ Push(VerdictUnclassified(assertions[Current].assertion))
          /\ UNCHANGED <<responseData, tasks, queue>>
  /\ i' = i + 1
  /\ UNCHANGED <<suite, call, firstResults, assertions, pc, inflight, unhandled>>

\* single record, a case that settles without waiting: the awaited
\* validateObjectLevel returns or throws
RunObjectLevel ==
  /\ AtLoop
  /\ ~IsArray(responseData)
  /\ LET o == validateObjectLevel(responseData, assertions[Current].assertion,
                                  assertions[Current].inputs)
     IN  /\ o.kind # "await"
         /\ Push(Verdict(o, assertions[Current].assertion))
  /\ i' = i + 1
  /\ UNCHANGED <<suite, call, firstResults, responseData, assertions, pc, tasks, queue, inflight, unhandled>>

\* single record, case "Custom": runAssertions parks until import(path) settles
RunCustomImport ==
  /\ AtLoop
  /\ ~IsArray(responseData)
  /\ validateObjectLevel(responseData, assertions[Current].assertion,
                         assertions[Current].inputs).kind = "await"
  /\ pc' = "import"
  /\ UNCHANGED <<suite, call, firstResults, responseData, assertions, i, results, tasks, queue, inflight, unhandled>>

\* import(path) settled: the rest of case "Custom" runs and runAssertions
\* resumes with what it returned
ImportSettles ==
  /\ pc = "import"
  /\ Push(Verdict(CustomAfterImport(responseData, assertions[Current].inputs),
                  assertions[Current].assertion))
  /\ inflight' = IF StartsAsyncValidator(assertions[Current].inputs)
                 THEN [inflight EXCEPT ![Current] = @ + 1]
                 ELSE inflight
  /\ pc' = "loop"
  /\ i' = i + 1
  /\ UNCHANGED <<suite, call, firstResults, responseData, assertions, tasks, queue, unhandled>>

\* return results
Finish ==
  /\ pc = "loop"
  /\ i = Len(assertions)
  /\ pc' = "done"
  /\ UNCHANGED <<suite, call, firstResults, responseData, assertions, i, results, tasks, queue, inflight, unhandled>>

(***************************************************************************)
(* What runs once runAssertions has left the call stack: the               *)
(* validateOnArrayItems calls it started and did not await.                *)
(***************************************************************************)
\* the microtask at the head of the queue: a call resumes after its await
FanOutStep ==
  /\ pc = "done"
  /\ queue # <<>>
  /\ LET k == Head(queue)
         next == FanOutResume(tasks[k], tasks[k].out, responseData,
                              assertions[SpecOf(k)].assertion, assertions[SpecOf(k)].inputs)
     IN  /\ tasks' = [tasks EXCEPT ![k] = next]
         /\ queue' = IF next.state = "parked" THEN Append(Tail(queue), k) ELSE Tail(queue)
         /\ unhandled' = IF next.state = "rejected" THEN unhandled \cup {k} ELSE unhandled
         /\ responseData' = ArrayAfterItem(responseData, next.i)
  /\ UNCHANGED <<suite, call, firstResults, assertions, pc, i, results, inflight>>

\* import(path) settles for a call parked inside case "Custom"
FanOutImportSettles(k) ==
  /\ pc = "done"
  /\ tasks[k].state = "importing"
  /\ tasks' = [tasks EXCEPT ![k] =
                 [@ EXCEPT !.state = "parked",
                           !.out = CustomAfterImport(Wrapped(responseData.c[@.i + 1]),
                                                     assertions[SpecOf(k)].inputs)]]
  /\ queue' = Append(queue, k)
  /\ inflight' = IF StartsAsyncValidator(assertions[SpecOf(k)].inputs)
                 THEN [inflight EXCEPT ![SpecOf(k)] = @ + 1]
                 ELSE inflight
  /\ UNCHANGED <<suite, call, firstResults, responseData, assertions, pc, i, results, unhandled>>

\* the promise of an async validator settles; nobody reads it
ValidatorSettles ==
  /\ \E k \in 1..Len(assertions) :
       /\ inflight[k] > 0
       /\ inflight' = [inflight EXCEPT ![k] = @ - 1]
  /\ UNCHANGED <<suite, call, firstResults, responseData, assertions, pc, i, results, tasks, queue, unhandled>>

Next ==
  \/ RunArrayLevel
  \/ RunFanOut
  \/ RunObjectLevel
  \/ RunCustomImport
  \/ ImportSettles
  \/ Finish
  \/ FanOutStep
  \/ \E k \in DOMAIN tasks : FanOutImportSettles(k)
  \/ ValidatorSettles

Spec == Init /\ [][Next]_vars

\* the caller calls runAssertions again with the same arguments once the
\* first call has returned; what the first call left running goes on
RunAgain ==
  /\ pc = "done"
  /\ call = "first"
  /\ call' = "second"
  /\ firstResults' = results
  /\ results' = <<>>
  /\ i' = 0
  /\ pc' = "loop"
  /\ tasks' = tasks \o [k \in 1..Len(assertions) |-> NoTask]
  /\ UNCHANGED <<suite, responseData, assertions, queue, inflight, unhandled>>

NextTwice == Next \/ RunAgain

SpecTwice == InitTwice /\ [][NextTwice]_vars

SpecCustom == InitCustom /\ [][Next]_vars

SpecArray == InitArray /\ [][Next]_vars

SpecRules == InitRules /\ [][Next]_vars

SpecConfig == InitConfig /\ [][Next]_vars

SpecDocs == InitDocs /\ [][Next]_vars

SpecItems == InitItems /\ [][Next]_vars

SpecFields == InitFields /\ [][Next]_vars

(***************************************************************************)
(* The suite run: sendHTTPRequest(ibgrobotData), which calls runAssertions *)
(* once per test case, and buildReportData on the list it returns.         *)
(*   suite.pc        where sendHTTPRequest is: "preImport" (waiting for    *)
(*                   the import of the pre-script), "preCall" (waiting for *)
(*                   the pre-script), "cases" (at the head of the loop     *)
(*                   over the test cases), "request" (waiting for axios),  *)
(*                   "postImport", "postCall", "returned", and "reported"  *)
(*                   once index.js has built the report                    *)
(*   suite.ibgrobotData  the argument                                      *)
(*   suite.baseHeaders, suite.globalData, suite.results  the locals        *)
(*   suite.t         how many test cases the loop has finished with        *)
(*   suite.preCalls  how many times the pre-script function was called     *)
(*   suite.requests  the configs handed to axios, in order                 *)
(*   suite.responses what each finished test case got from axios           *)
(*   suite.report    what buildReportData returned                         *)
(***************************************************************************)
\* obj[key] = value
SetProp(obj, key, value) ==
  IF HasOwn(obj, key)
  THEN Obj([j \in 1..Len(obj.c) |-> IF obj.c[j].k = key THEN KV(key, value) ELSE obj.c[j]])
  ELSE Obj(Append(obj.c, KV(key, value)))

\* the own properties an object spread copies
Entries(v) == IF v.t = "object" THEN v.c ELSE <<>>

RECURSIVE AssignAll(_, _)
AssignAll(target, entries) ==
  IF entries = <<>> THEN target
  ELSE AssignAll(SetProp(target, Head(entries).k, Head(entries).v), Tail(entries))

\* { ...a, ...b }
Spread(a, b) == AssignAll(AssignAll(Obj(<<>>), Entries(a)), Entries(b))

RECURSIVE AddHeaders(_, _)
AddHeaders(result, items) ==
  IF items = <<>> THEN result
  ELSE AddHeaders(SetProp(result, PropKey(Get(Head(items), "key")), Get(Head(items), "value")),
                  Tail(items))

\* headersArr.forEach is a function only when headersArr is an array
buildHeaders(headersArr) == AddHeaders(Obj(<<>>), headersArr.c)

\* s.toUpperCase() for the method names of the model
ToUpperCase(s) ==
  CASE s = "get" -> "GET"
    [] s = "post" -> "POST"
    [] OTHER -> s

\* JSON.parse(text) for the bodies of the model: whether it returns, and what
JSONParses(text) ==
  text.t = "string" /\ text.s \in {"{\"title\":\"t\"}", "{\"userId\":1}"}

JSONParse(text) ==
  CASE text.s = "{\"title\":\"t\"}" -> Obj(<<KV("title", Str("t"))>>)
    [] text.s = "{\"userId\":1}" -> Obj(<<KV("userId", Num(1))>>)
    [] OTHER -> Undef

\* parameters?.find((p) => p.key === "body")
FindBody(parameters) ==
  IF IsArray(parameters) /\ \E j \in 1..Len(parameters.c) : Get(parameters.c[j], "key") = Str("body")
  THEN parameters.c[FirstBad([j \in 1..Len(parameters.c) |->
                                Get(parameters.c[j], "key") = Str("body")])]
  ELSE Undef

(***************************************************************************)
(* Suite scripts, by path.  load: the import resolves; export: typeof      *)
(* (module.default || module.statefulPreScript); sets: the entries the     *)
(* function writes into the headers object it is handed; call: it returns  *)
(* result or throws.                                                       *)
(***************************************************************************)
Script(load, export, sets, outcome, result) ==
  [load |-> load, export |-> export, sets |-> sets, call |-> outcome, result |-> result]

PreScriptAt(path) ==
  CASE path.s = "./pre_no_function.mjs" -> Script(TRUE, "undefined", <<>>, "return", Undef)
    \* examples/stateful_pre_script.mjs spreads the headers object it is
    \* handed into an array literal, which throws
    [] path.s = "./stateful_pre_script.mjs" -> Script(TRUE, "function", <<>>, "throw", Undef)
    [] path.s = "./pre_nothing.mjs" -> Script(TRUE, "function", <<>>, "return", Undef)
    [] path.s = "./pre_token.mjs" ->
         Script(TRUE, "function", <<>>, "return",
                Obj(<<KV("headers", Arr(<<Obj(<<KV("key", Str("Authorization")),
                                                KV("value", Str("Bearer ABC123TOKEN"))>>)>>)),
                      KV("data", Obj(<<KV("userId", Num(999))>>))>>))
    [] path.s = "./pre_headers_object.mjs" ->
         Script(TRUE, "function", <<>>, "return",
                Obj(<<KV("headers", Obj(<<KV("Authorization", Str("Bearer ABC123TOKEN"))>>)),
                      KV("data", Obj(<<KV("userId", Num(999))>>))>>))
    [] path.s = "./pre_mutates.mjs" -> Script(TRUE, "function", <<KV("Authorization", Str("Bearer ABC123TOKEN"))>>,
                "return", Undef)
    [] path.s = "./pre_mutates_then_throws.mjs" ->
         Script(TRUE, "function", <<KV("Authorization", Str("Bearer ABC123TOKEN"))>>,
                "throw", Undef)
    [] OTHER -> Script(FALSE, "undefined", <<>>, "return", Undef)

\* export: typeof module.default, the only export the post-script block can
\* read (its other operand names a binding of the pre-script block)
PostScriptAt(path) ==
  CASE path.s = "./post_default.mjs" -> Script(TRUE, "function", <<>>, "return", Undef)
    [] path.s = "./post_named.mjs" -> Script(TRUE, "undefined", <<>>, "return", Undef)
    [] OTHER -> Script(FALSE, "undefined", <<>>, "return", Undef)

(***************************************************************************)
(* runAssertions as the value its promise settles to.                      *)
(***************************************************************************)
RECURSIVE runAssertionsFrom(_, _, _)
runAssertionsFrom(rs, data, specs) ==
  IF specs = <<>> THEN rs
  ELSE LET assertion == Head(specs).assertion
           inputs == Head(specs).inputs
           v == IF IsArray(data)
                THEN IF classifyAssertion(assertion).arrayCheck
                     THEN Verdict(validateArrayLevel(data, assertion, inputs), assertion)
                     ELSE IF classifyAssertion(assertion).objectCheck
                          THEN VerdictOfPromise(PromiseObject)
                          ELSE VerdictUnclassified(assertion)
                ELSE Verdict(validateObjectLevelSettled(data, assertion, inputs), assertion)
       IN  runAssertionsFrom(PushResult(rs, assertion, v.passed, v.message), data, Tail(specs))

runAssertions(data, specs) == runAssertionsFrom(<<>>, data, specs)

(***************************************************************************)
(* buildReportData                                                         *)
(***************************************************************************)
\* tc.assertions.every(a => a.passed)
allAssertionsPass(tc) == \A j \in 1..Len(tc.assertions) : tc.assertions[j].passed

\* buildReportData with every test case counted as passed
buildReportDataFrom_AllPass(totals, testResults) ==
  [totalTests |-> totals.totalTests + Len(testResults),
   totalPassedTests |-> totals.totalPassedTests + Len(testResults),
   totalFailedTests |-> totals.totalFailedTests]

\* the testResults.forEach loop over the counters
RECURSIVE buildReportDataFrom(_, _)
buildReportDataFrom(totals, testResults) ==
  IF testResults = <<>> THEN totals
  ELSE buildReportDataFrom(
         [totalTests |-> totals.totalTests + 1,
          totalPassedTests |-> totals.totalPassedTests +
                               (IF allAssertionsPass(Head(testResults)) THEN 1 ELSE 0),
          totalFailedTests |-> totals.totalFailedTests +
                               (IF allAssertionsPass(Head(testResults)) THEN 0 ELSE 1)],
         Tail(testResults))

buildReportData(testResults) ==
  LET totals == buildReportDataFrom([totalTests |-> 0, totalPassedTests |-> 0,
                                     totalFailedTests |-> 0], testResults)
  IN  [STATUS_TEXT |-> IF totals.totalFailedTests = 0
                       THEN "All tests passed" ELSE "Some tests failed",
       STATUS_CLASS |-> IF totals.totalFailedTests = 0
                        THEN "status-passed" ELSE "status-failed",
       ALL_TESTS_TOTAL |-> totals.totalTests,
       ALL_TESTS_PASS |-> totals.totalPassedTests,
       ALL_TESTS_FAIL |-> totals.totalFailedTests,
       ALL_TESTS_SKIP |-> 0]

(***************************************************************************)
(* The configurations a suite run starts from.                             *)
(***************************************************************************)
MaxCases == 2

\* test cases: one with a JSON body and two expectations, one whose body
\* is not JSON and that expects nothing, one without parameters and without
\* expected_results
CasePool ==
  { [description |-> "a is a number",
     parameters |-> Arr(<<Obj(<<KV("key", Str("body")), KV("value", Str("{\"userId\":1}"))>>)>>),
     expected_results |->
       Arr(<<AssertionObj("Required Fields", Arr(<<Str("a")>>)),
             AssertionObj("Number Field Validation", Arr(<<Str("a")>>))>>)],
    [description |-> "body is not JSON",
     parameters |-> Arr(<<Obj(<<KV("key", Str("body")), KV("value", Str("{title"))>>)>>),
     expected_results |-> Arr(<<>>)],
    [description |-> "nothing expected", parameters |-> Undef, expected_results |-> Undef] }

\* what axios settles to: it rejects, or resolves to a response with data
AxiosPool ==
  { [kind |-> "error", data |-> Undef] } \cup
  { [kind |-> "response", data |-> d] :
      d \in {Obj(<<KV("a", Num(1))>>), Obj(<<>>), Arr(<<Obj(<<KV("a", Num(1))>>)>>)} }

\* sendHTTPRequest up to its first await
StartSuite(ibgrobotData) ==
  [pc |-> IF Truthy(ibgrobotData.suite_pre_script) THEN "preImport" ELSE "cases",
   ibgrobotData |-> ibgrobotData,
   baseHeaders |-> buildHeaders(ibgrobotData.headers),
   globalData |-> Null,
   results |-> <<>>,
   t |-> 0,
   preCalls |-> 0,
   requests |-> <<>>,
   responses |-> <<>>,
   report |-> [STATUS_TEXT |-> "", STATUS_CLASS |-> "", ALL_TESTS_TOTAL |-> 0,
              ALL_TESTS_PASS |-> 0, ALL_TESTS_FAIL |-> 0, ALL_TESTS_SKIP |-> 0]]

InitSuite ==
  /\ responseData = Undef
  /\ assertions = <<>>
  /\ pc = "idle"
  /\ i = 0
  /\ results = <<>>
  /\ tasks = <<>>
  /\ queue = <<>>
  /\ inflight = <<>>
  /\ unhandled = {}
  /\ call = "first"
  /\ firstResults = <<>>
  /\ suite \in { StartSuite([method |-> method,
                             headers |-> Arr(<<Obj(<<KV("key", Str("Accept")),
                                                     KV("value", Str("application/json"))>>)>>),
                             testCases |-> testCases, suite_pre_script |-> pre,
                             suite_post_script |-> post]) :
                   method \in {Undef, Str("post")},
                   testCases \in SeqsUpTo(CasePool, MaxCases),
                   pre \in { Undef, Str("./pre_gone.mjs"), Str("./pre_no_function.mjs"),
                             Str("./stateful_pre_script.mjs"), Str("./pre_nothing.mjs"),
                             Str("./pre_token.mjs"), Str("./pre_headers_object.mjs"),
                             Str("./pre_mutates.mjs"), Str("./pre_mutates_then_throws.mjs") },
                   post \in {Undef, Str("./post_default.mjs"), Str("./post_named.mjs")} }

(***************************************************************************)
(* sendHTTPRequest, one action per stretch between two awaits.             *)
(***************************************************************************)
\* what the function's writes leave in the object that baseHeaders names
HeadersInPlace(headers, sets) == AssignAll(headers, sets)

\* import of the pre-script settled: the catch block, the warning, or the
\* call of the function
PreScriptImportSettles ==
  /\ suite.pc = "preImport"
  /\ LET module == PreScriptAt(suite.ibgrobotData.suite_pre_script)
     IN  IF ~module.load \/ module.export # "function"
         THEN suite' = [suite EXCEPT !.pc = "cases"]
         ELSE suite' = [suite EXCEPT !.pc = "preCall",
                                     !.preCalls = @ + 1,
                                     !.baseHeaders = HeadersInPlace(@, module.sets)]
  /\ UNCHANGED <<responseData, assertions, pc, i, results, tasks, queue, inflight, unhandled,
                 call, firstResults>>

\* the pre-script settled: its result is applied, or the catch block runs
PreScriptSettles ==
  /\ suite.pc = "preCall"
  /\ LET module == PreScriptAt(suite.ibgrobotData.suite_pre_script)
         result == module.result
         newHeaders == Get(result, "headers")
         newData == Get(result, "data")
     IN  IF module.call = "throw" \/ ~Truthy(result)
         THEN suite' = [suite EXCEPT !.pc = "cases"]
         ELSE IF Truthy(newHeaders) /\ ~IsArray(newHeaders)
         THEN suite' = [suite EXCEPT !.pc = "cases"]
         ELSE suite' = [suite EXCEPT
                          !.pc = "cases",
                          !.baseHeaders = IF Truthy(newHeaders)
                                          THEN buildHeaders(newHeaders) ELSE @,
                          !.globalData = IF Truthy(newData) THEN newData ELSE @]
  /\ UNCHANGED <<responseData, assertions, pc, i, results, tasks, queue, inflight, unhandled,
                 call, firstResults>>

\* the test case the loop is at
ThisCase == suite.ibgrobotData.testCases[suite.t + 1]

\* the loop goes on with the next test case
NextCaseNone(s) == Len(s.ibgrobotData.testCases)

NextCase(s) == s.t + 1

\* the body of the loop up to `await axios(config)`
SendRequest ==
  /\ suite.pc = "cases"
  /\ suite.t < Len(suite.ibgrobotData.testCases)
  /\ LET method == IF Truthy(suite.ibgrobotData.method)
                   THEN suite.ibgrobotData.method.s ELSE "GET"
         withBody == ToUpperCase(method) # "GET"
         bodyParam == FindBody(ThisCase.parameters)
         globalBody == IF Truthy(suite.globalData)
                       THEN Spread(suite.globalData, Obj(<<>>)) ELSE Obj(<<>>)
         finalBody == IF Truthy(bodyParam)
                      THEN Spread(globalBody, JSONParse(Get(bodyParam, "value")))
                      ELSE globalBody
         config == [method |-> method,
                    headers |-> Spread(suite.baseHeaders, Obj(<<>>)),
                    data |-> IF withBody THEN finalBody ELSE Undef]
     IN  IF withBody /\ Truthy(bodyParam) /\ ~JSONParses(Get(bodyParam, "value"))
         THEN suite' = [suite EXCEPT !.t = NextCase(suite),
                                     !.responses = Append(@, [kind |-> "none", data |-> Undef])]
         ELSE suite' = [suite EXCEPT !.pc = "request",
                                     !.requests = Append(@, config)]
  /\ UNCHANGED <<responseData, assertions, pc, i, results, tasks, queue, inflight, unhandled,
                 call, firstResults>>

\* axios settled: the catch block, or runAssertions and the push of its list
ResponseSettles ==
  /\ suite.pc = "request"
  /\ \E response \in AxiosPool :
       IF response.kind = "error" \/ ~Iterable(ThisCase.expected_results)
       THEN suite' = [suite EXCEPT !.pc = "cases",
                                   !.t = NextCase(suite),
                                   !.responses = Append(@, response)]
       ELSE suite' = [suite EXCEPT
                        !.pc = "cases",
                        !.t = NextCase(suite),
                        !.responses = Append(@, response),
                        !.results = Append(@,
                           [testCase |-> ThisCase.description,
                            assertions |-> runAssertions(response.data,
                                             IterItems(ThisCase.expected_results))])]
  /\ UNCHANGED <<responseData, assertions, pc, i, results, tasks, queue, inflight, unhandled,
                 call, firstResults>>

\* the loop is over: the post-script is imported, or the list is returned
CasesDone ==
  /\ suite.pc = "cases"
  /\ suite.t >= Len(suite.ibgrobotData.testCases)
  /\ suite' = [suite EXCEPT !.pc = IF Truthy(suite.ibgrobotData.suite_post_script)
                                   THEN "postImport" ELSE "returned"]
  /\ UNCHANGED <<responseData, assertions, pc, i, results, tasks, queue, inflight, unhandled,
                 call, firstResults>>

\* import of the post-script settled
PostScriptImportSettles ==
  /\ suite.pc = "postImport"
  /\ LET module == PostScriptAt(suite.ibgrobotData.suite_post_script)
     IN  suite' = [suite EXCEPT !.pc = IF module.load /\ module.export = "function"
                                       THEN "postCall" ELSE "returned"]
  /\ UNCHANGED <<responseData, assertions, pc, i, results, tasks, queue, inflight, unhandled,
                 call, firstResults>>

\* the post-script settled
PostScriptSettles ==
  /\ suite.pc = "postCall"
  /\ suite' = [suite EXCEPT !.pc = "returned"]
  /\ UNCHANGED <<responseData, assertions, pc, i, results, tasks, queue, inflight, unhandled,
                 call, firstResults>>

\* index.js: buildReportData(testResults, name)
BuildReport ==
  /\ suite.pc = "returned"
  /\ suite' = [suite EXCEPT !.pc = "reported", !.report = buildReportData(suite.results)]
  /\ UNCHANGED <<responseData, assertions, pc, i, results, tasks, queue, inflight, unhandled,
                 call, firstResults>>

NextSuite ==
  \/ PreScriptImportSettles
  \/ PreScriptSettles
  \/ SendRequest
  \/ ResponseSettles
  \/ CasesDone
  \/ PostScriptImportSettles
  \/ PostScriptSettles
  \/ BuildReport

SpecSuite == InitSuite /\ [][NextSuite]_vars

(***************************************************************************)
(* Properties.                                                             *)
(***************************************************************************)
\* the kinds validateObjectLevel has a case for
Catalog ==
  { "Schema Compliance", "Required Fields", "No Additional Fields",
    "String Field Validation", "Number Field Validation", "Boolean Field Validation",
    "Array Validation", "Nested Object Validation", "Pattern Matching",
    "Enumeration Validation", "Date Field Validation", "Nullability", "Default Values",
    "Strict Validation", "Custom Logic", "Data Transformation", "Multi-Type Fields",
    "Error Messaging", "Read-Only Fields", "Disallowed Pattern", "Custom" }

Done == pc = "done"

Kind(k) == assertions[k].assertion

\* the response is a collection and assertion k is item-level
FannedOut(k) == IsArray(responseData) /\ ~classifyAssertion(Kind(k)).arrayCheck

\* what the Item Evaluator gives for element j (1-based) under assertion k
ItemOutcome(k, j) ==
  validateObjectLevelSettled(Wrapped(responseData.c[j]), Kind(k), assertions[k].inputs)

ItemPasses(k, j) == ItemOutcome(k, j).kind = "return" /\ ItemOutcome(k, j).pass

\* the 0-based positions of the elements that fail assertion k, ascending
FailingIndices(k) ==
  LET Fails(x) == ~ItemPasses(k, x + 1)
  IN  SelectSeq([j \in 1..Len(responseData.c) |-> j - 1], Fails)

\* the exception texts raised inside the dispatch of assertion k
ThrownBy(k) ==
  IF ~IsArray(responseData)
  THEN LET o == validateObjectLevelSettled(responseData, Kind(k), assertions[k].inputs)
       IN  IF o.kind = "throw" THEN {o.err} ELSE {}
  ELSE IF classifyAssertion(Kind(k)).arrayCheck
  THEN LET o == validateArrayLevel(responseData, Kind(k), assertions[k].inputs)
       IN  IF o.kind = "throw" THEN {o.err} ELSE {}
  ELSE {ItemOutcome(k, j).err :
          j \in {m \in 1..Len(responseData.c) : ItemOutcome(k, m).kind = "throw"}}

\* C1: runAssertions pushes exactly one result per assertion it has gone
\* through, the k-th result carries the k-th assertion's name, and the list
\* it returns is as long as the list of assertions.
C1_OneResultPerSpecInOrder ==
  /\ Len(results) = i
  /\ \A k \in 1..Len(results) : results[k].assertion = Kind(k)
  /\ Done => Len(results) = Len(assertions)

\* a finished run over two assertions of different kinds, the first failed
\* and the second passed
C1_Witness ==
  /\ Done
  /\ Len(results) = 2
  /\ results[1].assertion # results[2].assertion
  /\ ~results[1].passed
  /\ results[2].passed

\* C2: on a collection, the result of an item-level assertion has
\* passed = TRUE exactly when no element fails the Item Evaluator.
C2_PassedIffNoItemFails ==
  \A k \in 1..Len(results) :
    FannedOut(k) =>
      (results[k].passed <=> \A j \in 1..Len(responseData.c) : ItemPasses(k, j))

\* C3: on a collection, when some elements fail an item-level assertion (and
\* none raises), the result's message lists exactly their 0-based positions,
\* ascending and without duplicates.
C3_MessageListsFailingIndices ==
  \A k \in 1..Len(results) :
    (FannedOut(k) /\ ThrownBy(k) = {} /\ FailingIndices(k) # <<>>) =>
      results[k].message.idx = FailingIndices(k)

\* C4: every result has a boolean passed and a string message.
C4_ResultsWellTyped ==
  \A k \in 1..Len(results) :
    results[k].passed \in BOOLEAN /\ IsStringMsg(results[k].message)

\* C5: once the result of assertion k is pushed (and so before assertion
\* k + 1 is started) all evaluation work started for assertion k is over:
\* its item fan-out has settled and no validator it called is still running.
C5_NoOverlap ==
  \A k \in 1..Len(results) :
    /\ tasks[k].state \in {"none", "fulfilled", "rejected"}
    /\ inflight[k] = 0

\* C6: an exception raised inside the dispatch of assertion k becomes that
\* assertion's failed result with the exception text in its message, it does
\* not escape, and the run still returns one result per assertion.
C6_ExceptionBecomesFailedResult ==
  /\ unhandled = {}
  /\ \A k \in 1..Len(results) :
       ThrownBy(k) # {} =>
         /\ ~results[k].passed
         /\ results[k].message.tag = "Error during assertion"
         /\ results[k].message.strs[2] \in ThrownBy(k)
  /\ Done => Len(results) = Len(assertions)

\* C7: an assertion whose kind is not in the catalog gets passed = TRUE and
\* the "unrecognized assertion" message, for a record and for a collection.
C7_UnknownKindPassesWithDiagnostic ==
  \A k \in 1..Len(results) :
    Kind(k) \notin Catalog =>
      /\ results[k].passed
      /\ results[k].message.tag = "Unrecognized assertion type. Skipping."

\* the validator module assertion k names
ModuleOf(k) == ModuleAt(Get(assertions[k].inputs, "path"))

\* assertion k is a Custom check whose module loads and exports a callable
CallsValidator(k) ==
  /\ Kind(k) = "Custom"
  /\ Destructurable(assertions[k].inputs)
  /\ ModuleOf(k).load
  /\ ModuleOf(k).export = "function"

\* the object has a boolean status and a string error
WellFormed(result) ==
  Get(result, "status").t = "boolean" /\ Get(result, "error").t = "string"

\* the result's passed is status; its message is error when status is
\* false and the fixed pass message when it is true
MapsStatusAndError(r, result) ==
  /\ r.passed = Get(result, "status").b
  /\ Get(result, "status").b => r.message = PassMsg
  /\ ~Get(result, "status").b => r.message = Literal(Get(result, "error").s)

\* C8: a Custom check whose validator returns a well-formed
\* { status, error } gets passed = status, message = error when status is
\* false (for every string error) and the fixed pass message otherwise.
C8_CustomMapsStatusAndError ==
  \A k \in 1..Len(results) :
    (CallsValidator(k) /\ ModuleOf(k).call = "return" /\ WellFormed(ModuleOf(k).result)) =>
      MapsStatusAndError(results[k], ModuleOf(k).result)

\* assertion k is a Custom check that breaks the contract: the module does
\* not load, has no callable validate, validate throws, or what it returns
\* lacks a boolean status or a string error
BreaksContract(k) ==
  /\ Kind(k) = "Custom"
  /\ Destructurable(assertions[k].inputs)
  /\ \/ ~ModuleOf(k).load
     \/ ModuleOf(k).export # "function"
     \/ ModuleOf(k).call = "throw"
     \/ ModuleOf(k).call = "return" /\ ~WellFormed(ModuleOf(k).result)

ContractMessages ==
  { "Error running custom assertion script:",
    "Custom script does not export a 'validate' function.",
    "Custom script returned invalid structure. Must be { status: boolean, error: string }." }

\* C9: each way a Custom check can break the contract gives a failed result
\* with an explanatory message, and no exception leaves the Runner.
C9_ContractFailureIsFailedResult ==
  \A k \in 1..Len(results) :
    BreaksContract(k) =>
      /\ ~results[k].passed
      /\ results[k].message.tag \in ContractMessages
      /\ k \notin unhandled

\* the verdict the same run gives assertion k when its validator returns
\* the same object synchronously
SyncTwinVerdict(k) ==
  IF IsArray(responseData)
  THEN VerdictOfPromise(PromiseObject)
  ELSE Verdict(CustomOutcome([ModuleOf(k) EXCEPT !.call = "return"]), Kind(k))

\* C10: a validator that delivers a well-formed { status, error } through a
\* promise is handled the same as one that returns that object
\* synchronously: the result has the same passed and the same message.
C10_AwaitableValidatorAsSync ==
  \A k \in 1..Len(results) :
    (CallsValidator(k) /\ ModuleOf(k).call = "promise" /\ WellFormed(ModuleOf(k).result)) =>
      /\ results[k].passed = SyncTwinVerdict(k).passed
      /\ results[k].message = SyncTwinVerdict(k).message

\* every assertion of the run is of a built-in kind
BuiltInOnly == \A k \in 1..Len(assertions) : Kind(k) \in Catalog \ {"Custom"}

NoCustom == \A k \in 1..Len(assertions) : Kind(k) # "Custom"

\* C12: no step of a run over built-in kinds changes responseData, any
\* element of it, or any assertion object (its kind and its inputs); a scalar
\* element is wrapped into a new record and stays as it was in the collection.
C12_InputsUnchanged ==
  [][NoCustom => (responseData' = responseData /\ assertions' = assertions)]_vars

\* a fan-out over a collection holding a scalar has run to its end, past
\* that element, and the element is still the scalar
C12_Witness ==
  /\ NoCustom
  /\ IsArray(responseData)
  /\ \E task \in DOMAIN tasks, j \in 1..Len(responseData.c) :
       /\ tasks[task].state = "fulfilled"
       /\ tasks[task].i >= j
       /\ TypeOf(responseData.c[j]) # "object"
       /\ (j - 1) \in Range(tasks[task].failedIndices)

\* assertion k is Array Validation, run on the collection as a whole, with a
\* configuration object
ArrayLevel(k) ==
  /\ IsArray(responseData)
  /\ Kind(k) = "Array Validation"
  /\ assertions[k].inputs.t = "object"

\* the collection holds two equal elements
HasEqualElements(arrayData) ==
  \E a, b \in 1..Len(arrayData.c) : a < b /\ arrayData.c[a] = arrayData.c[b]

\* C13: on a collection, Array Validation with enforceUnique set fails when
\* two elements of the collection are equal.
C13_EnforceUniqueOnCollection ==
  \A k \in 1..Len(results) :
    (ArrayLevel(k) /\ Truthy(Get(assertions[k].inputs, "enforceUnique"))
       /\ HasEqualElements(responseData)) =>
      ~results[k].passed

\* the collection is shorter than a numeric minLength of assertion k
BelowMin(k) ==
  /\ Get(assertions[k].inputs, "minLength").t = "number"
  /\ 2 * Len(responseData.c) < Twice(Get(assertions[k].inputs, "minLength"))

\* the collection is longer than a numeric maxLength of assertion k
AboveMax(k) ==
  /\ Get(assertions[k].inputs, "maxLength").t = "number"
  /\ 2 * Len(responseData.c) > Twice(Get(assertions[k].inputs, "maxLength"))

\* C14: on a collection, Array Validation fails exactly when the length is
\* below a numeric minLength or above a numeric maxLength (absent and
\* non-numeric bounds are ignored); the message is the minimum's when the
\* minimum is violated, also when the maximum is violated too, and the
\* maximum's otherwise.
C14_LengthBounds ==
  \A k \in 1..Len(results) :
    ArrayLevel(k) =>
      /\ results[k].passed <=> (~BelowMin(k) /\ ~AboveMax(k))
      /\ BelowMin(k) =>
           results[k].message.tag = "Array length is below minimum. Actual length ="
      /\ (AboveMax(k) /\ ~BelowMin(k)) =>
           results[k].message.tag = "Array length exceeds maximum. Actual length ="
      /\ (~BelowMin(k) /\ ~AboveMax(k)) => results[k].message = PassMsg

\* a collection both shorter than minLength and longer than maxLength got the
\* minimum's message, and a non-numeric bound was ignored in the same run
C14_Witness ==
  \E k, m \in 1..Len(results) :
    /\ ArrayLevel(k) /\ BelowMin(k) /\ AboveMax(k)
    /\ results[k].message.tag = "Array length is below minimum. Actual length ="
    /\ ArrayLevel(m)
    /\ Get(assertions[m].inputs, "minLength").t = "string"
    /\ results[m].passed

\* what the run has so far got from the per-record rule of assertion k: for a
\* single record the result it pushed, for a collection what the fan-out of
\* the first call noted for each element it is past
Evaluations(k) ==
  IF ~IsArray(responseData)
  THEN IF k <= Len(results) /\ call = "first"
       THEN {[obj |-> responseData, passed |-> results[k].passed,
              message |-> results[k].message]}
       ELSE {}
  ELSE { [obj |-> Wrapped(responseData.c[j]),
          passed |-> (j - 1) \notin Range(tasks[k].failedIndices),
          message |-> IF (j - 1) \in Range(tasks[k].failedIndices)
                      THEN (CHOOSE s \in Range(tasks[k].subMessages) : s.index = j - 1).msg
                      ELSE PassMsg] : j \in 1..tasks[k].i }

\* the value is a list of strings
IsNameList(v) == IsArray(v) /\ \A n \in 1..Len(v.c) : v.c[n].t = "string"

Least(S) == CHOOSE x \in S : \A y \in S : x <= y

\* the names Required Fields is given: a list, or one bare name
RequiredNames(k) ==
  IF IsArray(assertions[k].inputs) THEN assertions[k].inputs.c ELSE <<assertions[k].inputs>>

\* C15: Required Fields on a record passes exactly when every named field
\* is an own property of the record, whatever its value (null and undefined
\* included); when it fails, the message names the first missing field in
\* the order of the input.
C15_RequiredFields ==
  \A k \in 1..Len(assertions) :
    (Kind(k) = "Required Fields" /\ IsNameList(Arr(RequiredNames(k)))) =>
      \A e \in Evaluations(k) :
        LET missing == {n \in 1..Len(RequiredNames(k)) :
                          ~HasOwn(e.obj, RequiredNames(k)[n].s)}
        IN  /\ e.passed <=> missing = {}
            /\ missing # {} =>
                 e.message = Msg("Missing required field",
                                 <<RequiredNames(k)[Least(missing)].s>>, <<>>)

\* {id: 1} against ["id", "name"] failed naming "name"
C15_Witness ==
  /\ Kind(1) = "Required Fields"
  /\ assertions[1].inputs = Names(<<"id", "name">>)
  /\ \E e \in Evaluations(1) :
       /\ e.obj = Obj(<<KV("id", Num(1))>>)
       /\ ~e.passed
       /\ e.message.strs = <<"name">>

\* assertion k is Number Field Validation in structured form: a list of
\* names, bounds that are numbers or absent, a boolean or absent integerOnly
StructuredNumber(k) ==
  /\ Kind(k) = "Number Field Validation"
  /\ assertions[k].inputs.t = "object"
  /\ IsNameList(Get(assertions[k].inputs, "fields"))
  /\ Get(assertions[k].inputs, "min").t \in {"number", "undefined"}
  /\ Get(assertions[k].inputs, "max").t \in {"number", "undefined"}
  /\ Get(assertions[k].inputs, "integerOnly").t \in {"boolean", "undefined"}

\* the value is a number within the bounds assertion k gives, and an integer
\* when assertion k asks for integers
NumberWithin(value, k) ==
  LET min == Get(assertions[k].inputs, "min")
      max == Get(assertions[k].inputs, "max")
      integerOnly == Get(assertions[k].inputs, "integerOnly")
  IN  /\ value.t = "number"
      /\ min.t = "number" => 2 * value.n + value.h >= 2 * min.n + min.h
      /\ max.t = "number" => 2 * value.n + value.h <= 2 * max.n + max.h
      /\ integerOnly = Bool(TRUE) => value.h = 0

\* C16: Number Field Validation in structured form passes exactly when every
\* listed field holds a number that is >= min when min is given, <= max when
\* max is given, and an integer when integerOnly is true.
C16_NumberStructured ==
  \A k \in 1..Len(assertions) :
    StructuredNumber(k) =>
      \A e \in Evaluations(k) :
        e.passed <=>
          \A n \in 1..Len(Get(assertions[k].inputs, "fields").c) :
            NumberWithin(Get(e.obj, Get(assertions[k].inputs, "fields").c[n].s), k)

\* with integerOnly and max 20, {price: 10.5} failed and {price: 10} passed
C16_Witness ==
  /\ StructuredNumber(1)
  /\ Get(assertions[1].inputs, "integerOnly") = Bool(TRUE)
  /\ Get(assertions[1].inputs, "max") = Num(20)
  /\ \E e, f \in Evaluations(1) :
       /\ e.obj = Obj(<<KV("price", NumHalf(10))>>)
       /\ ~e.passed
       /\ f.obj = Obj(<<KV("price", Num(10))>>)
       /\ f.passed

\* assertion k is Schema Compliance with a schema that maps field names to
\* type names and a boolean or absent strict
SchemaGiven(k) ==
  /\ Kind(k) = "Schema Compliance"
  /\ assertions[k].inputs.t = "object"
  /\ Get(assertions[k].inputs, "schema").t = "object"
  /\ \A key \in Range(Keys(Get(assertions[k].inputs, "schema"))) :
       Get(Get(assertions[k].inputs, "schema"), key).t = "string"
  /\ Get(assertions[k].inputs, "strict").t \in {"boolean", "undefined"}

\* every field of the schema of assertion k has its declared type in obj
TypesMatch(obj, k) ==
  \A key \in Range(Keys(Get(assertions[k].inputs, "schema"))) :
    TypeOf(Get(obj, key)) = Get(Get(assertions[k].inputs, "schema"), key).s

\* the keys of obj that the schema of assertion k does not have
ExtraKeys(obj, k) ==
  {key \in Range(Keys(obj)) : ~HasOwn(Get(assertions[k].inputs, "schema"), key)}

\* C17: Schema Compliance passes exactly when every schema field's runtime
\* type in the record is its declared type name and, with strict true, the
\* record has no key outside the schema; with strict true, a record whose
\* schema fields all match but which has an extra key fails with a message
\* citing such a key.
C17_SchemaCompliance ==
  \A k \in 1..Len(assertions) :
    SchemaGiven(k) =>
      \A e \in Evaluations(k) :
        LET strict == Get(assertions[k].inputs, "strict") = Bool(TRUE)
        IN  /\ e.passed <=>
                 (TypesMatch(e.obj, k) /\ (strict => ExtraKeys(e.obj, k) = {}))
            /\ (strict /\ TypesMatch(e.obj, k) /\ ExtraKeys(e.obj, k) # {}) =>
                 /\ e.message.tag = "Strict schema compliance failed. Unexpected field"
                 /\ e.message.strs[1] \in ExtraKeys(e.obj, k)

\* {id: 1, extra: true} against the strict schema {id: "number"} failed
\* citing "extra"
C17_Witness ==
  /\ SchemaGiven(1)
  /\ assertions[1].inputs =
       Obj(<<KV("schema", Obj(<<KV("id", Str("number"))>>)), KV("strict", Bool(TRUE))>>)
  /\ \E e \in Evaluations(1) :
       /\ e.obj = Obj(<<KV("id", Num(1)), KV("extra", Bool(TRUE))>>)
       /\ ~e.passed
       /\ e.message.strs = <<"extra">>

\* assertion k is Nullability with lists of names, or none, for nonNullable
\* and nullable
NullabilityGiven(k) ==
  /\ Kind(k) = "Nullability"
  /\ assertions[k].inputs.t = "object"
  /\ \A key \in {"nonNullable", "nullable"} :
       \/ Get(assertions[k].inputs, key).t = "undefined"
       \/ IsNameList(Get(assertions[k].inputs, key))

\* the names assertion k lists under key, none when the key is absent
Listed(k, key) ==
  IF Get(assertions[k].inputs, key).t = "undefined"
  THEN {}
  ELSE {Get(assertions[k].inputs, key).c[n].s :
          n \in 1..Len(Get(assertions[k].inputs, key).c)}

\* C18: Nullability passes exactly when no field listed in nonNullable is
\* null in the record and every field listed in nullable that the record has
\* is null; an absent nonNullable field is no failure, and a nonNullable
\* violation is the one reported when a nullable one is there too.
C18_Nullability ==
  \A k \in 1..Len(assertions) :
    NullabilityGiven(k) =>
      \A e \in Evaluations(k) :
        LET nulls == {f \in Listed(k, "nonNullable") : Get(e.obj, f) = Null}
            set == {f \in Listed(k, "nullable") : HasOwn(e.obj, f) /\ Get(e.obj, f) # Null}
        IN  /\ e.passed <=> (nulls = {} /\ set = {})
            /\ nulls # {} =>
                 /\ e.message.tag = "should not be null."
                 /\ e.message.strs[1] \in nulls
            /\ (nulls = {} /\ set # {}) =>
                 /\ e.message.tag = "must be null if present."
                 /\ e.message.strs[1] \in set

\* a record with a null nonNullable field and a non-null nullable field
\* failed on the nonNullable one
C18_Witness ==
  /\ NullabilityGiven(1)
  /\ \E e \in Evaluations(1) :
       /\ {f \in Listed(1, "nonNullable") : Get(e.obj, f) = Null} # {}
       /\ {f \in Listed(1, "nullable") : HasOwn(e.obj, f) /\ Get(e.obj, f) # Null} # {}
       /\ ~e.passed
       /\ e.message.tag = "should not be null."

\* assertion k is of a kind with polymorphic inputs, given as a flat list of
\* names
FlatList(k) ==
  /\ Kind(k) \in {"String Field Validation", "Number Field Validation"}
  /\ IsNameList(assertions[k].inputs)

\* the structured form of the flat list of assertion k, with no other
\* parameter
StructuredTwin(k) == Obj(<<KV("fields", assertions[k].inputs)>>)

\* C19: for String Field Validation and Number Field Validation, a record
\* gets the same passed from the flat list L as from the structured form
\* {fields: L}.
C19_FlatAsStructured ==
  \A k \in 1..Len(assertions) :
    FlatList(k) =>
      \A e \in Evaluations(k) :
        e.passed = validateObjectLevel(e.obj, Kind(k), StructuredTwin(k)).pass

\* assertion k is String Field Validation with a flat list of names
FlatString(k) ==
  Kind(k) = "String Field Validation" /\ IsNameList(assertions[k].inputs)

\* C20 as stated: String Field Validation with a flat list passes exactly
\* when every named field of the record is a string of length >= 1, a
\* string made only of whitespace included.
C20_FlatStringNonEmpty ==
  \A k \in 1..Len(assertions) :
    FlatString(k) =>
      \A e \in Evaluations(k) :
        e.passed <=>
          \A n \in 1..Len(assertions[k].inputs.c) :
            LET value == Get(e.obj, assertions[k].inputs.c[n].s)
            IN  value.t = "string" /\ Len(Chars(value.s)) >= 1

\* C20, amended: String Field Validation with a flat list passes exactly
\* when every named field of the record is a string that still has a
\* character once leading and trailing whitespace is trimmed; a string made
\* only of whitespace fails like the empty string, with the "cannot be an
\* empty string" message.
C20_FlatStringTrimmedNonEmpty ==
  \A k \in 1..Len(assertions) :
    FlatString(k) =>
      \A e \in Evaluations(k) :
        LET Value(n) == Get(e.obj, assertions[k].inputs.c[n].s)
            bad == {n \in 1..Len(assertions[k].inputs.c) :
                      ~(Value(n).t = "string"
                          /\ Len(TrimRight(TrimLeft(Chars(Value(n).s)))) >= 1)}
        IN  /\ e.passed <=> bad = {}
            /\ bad # {} =>
                 e.message = Msg(IF Value(Least(bad)).t = "string"
                                 THEN "cannot be an empty string."
                                 ELSE "is not a string.",
                                 <<assertions[k].inputs.c[Least(bad)].s>>, <<>>)

\* {a: " "} against ["a"] failed as an empty string
C20_Witness ==
  /\ FlatString(1)
  /\ assertions[1].inputs = Names(<<"a">>)
  /\ \E e \in Evaluations(1) :
       /\ e.obj = Obj(<<KV("a", Str(" "))>>)
       /\ ~e.passed
       /\ e.message.tag = "cannot be an empty string."

\* the inputs of assertion k are absent or wrongly shaped for its kind: no
\* schema object, no fields list in a structured form, or no inputs at all
Misconfigured(k) ==
  \/ /\ Kind(k) = "Schema Compliance"
     /\ Get(assertions[k].inputs, "schema").t # "object"
  \/ /\ Kind(k) \in {"String Field Validation", "Number Field Validation"}
     /\ ~IsArray(assertions[k].inputs)
     /\ ~IsArray(Get(assertions[k].inputs, "fields"))
  \/ /\ Kind(k) \in Catalog \ {"Required Fields", "Read-Only Fields", "No Additional Fields",
                                 "Boolean Field Validation", "Custom"}
     /\ assertions[k].inputs.t = "undefined"

\* the validateOnArrayItems calls started for assertion k
TasksOf(k) == {task \in DOMAIN tasks : SpecOf(task) = k}

\* C21: an assertion with absent or wrongly shaped inputs gets a failed
\* result with a descriptive message, for a record and for a collection, and
\* nothing it raises is left without a handler.
C21_ConfigShapeErrorIsFailedResult ==
  \A k \in 1..Len(results) :
    Misconfigured(k) =>
      /\ ~results[k].passed
      /\ results[k].message.tag \in {"No schema object provided in inputs.",
                                     "Error during assertion"}
      /\ TasksOf(k) \cap unhandled = {}

\* the assertion type names the documentation uses in expected_results
\* entries, and the README's name for the custom script
DocumentedNames ==
  (Catalog \ {"Disallowed Pattern", "Custom"})
    \cup {"Custom Validators", "Custom Assertion Script"}

\* what the rule the documentation describes for assertion k makes of obj:
\* for "Custom Validators" the disallowed-pattern rule, for "Custom Assertion
\* Script" the external validator at inputs.scriptPath, otherwise the rule of
\* that name
DocumentedPasses(obj, k) ==
  CASE Kind(k) = "Custom Validators" ->
         validateObjectLevel(obj, "Disallowed Pattern", assertions[k].inputs).pass
    [] Kind(k) = "Custom Assertion Script" ->
         CustomOutcome(ModuleAt(Get(assertions[k].inputs, "scriptPath"))).pass
    [] OTHER -> validateObjectLevelSettled(obj, Kind(k), assertions[k].inputs).pass

\* C22: an assertion written under a documented type name is evaluated by
\* the rule the documentation describes for it: a record passes it exactly
\* when that rule passes the record, so the documented failing example fails.
C22_DocumentedNamesDispatched ==
  \A k \in 1..Len(assertions) :
    Kind(k) \in DocumentedNames =>
      \A e \in Evaluations(k) : e.passed = DocumentedPasses(e.obj, k)

(***************************************************************************)
(* The suite run: what holds of sendHTTPRequest and buildReportData.       *)
(***************************************************************************)
\* the module the configured pre-script path resolves to
PreScript == PreScriptAt(suite.ibgrobotData.suite_pre_script)

\* a pre-script is configured and it fails to load, exports no function, or
\* throws
PreScriptFails ==
  /\ Truthy(suite.ibgrobotData.suite_pre_script)
  /\ (~PreScript.load \/ PreScript.export # "function" \/ PreScript.call = "throw")

PastPreScript == suite.pc \notin {"preImport", "preCall"}

SuiteReturned == suite.pc \in {"returned", "reported"}

\* the headers the configuration gives
OriginalHeaders == buildHeaders(suite.ibgrobotData.headers)

\* every property of the global data is a property of the body sent
CarriesGlobalData(config) ==
  \A e \in Range(Entries(suite.globalData)) : HasOwn(config.data, e.k)

\* C23: the pre-script function is called at most once and no request is
\* sent before the pre-script phase is over; every request carries the
\* headers as they stand after the pre-script and, when it has a body, the
\* global data; when the pre-script fails to load, exports no function or
\* throws, every test case is still run and its request carries the headers
\* of the configuration.
C23_PreScriptOnceThenEveryCase ==
  /\ suite.preCalls <= 1
  /\ (suite.requests # <<>> => PastPreScript)
  /\ \A r \in 1..Len(suite.requests) :
       /\ suite.requests[r].headers = suite.baseHeaders
       /\ (suite.requests[r].data # Undef => CarriesGlobalData(suite.requests[r]))
       /\ (PreScriptFails => suite.requests[r].headers = OriginalHeaders)
  /\ (PreScriptFails /\ SuiteReturned =>
        Len(suite.responses) = Len(suite.ibgrobotData.testCases))

(***************************************************************************)
(* C24: the order of the conditions within one record.                     *)
(***************************************************************************)
Cond(fails, tag, name) == [fails |-> fails, tag |-> tag, name |-> name]

\* the sequences s[1] \o s[2] \o ... of a sequence of sequences
RECURSIVE Flatten(_)
Flatten(seqs) == IF seqs = <<>> THEN <<>> ELSE Head(seqs) \o Flatten(Tail(seqs))

\* assertion k is a kind that walks a list, with the list well formed
Sequenced(k) ==
  \/ Kind(k) \in {"Required Fields", "Number Field Validation", "String Field Validation"}
       /\ IsNameList(assertions[k].inputs)
  \/ StructuredNumber(k)
  \/ SchemaGiven(k)

\* the conditions assertion k puts to obj, in the order of its text: field by
\* field in the order of the input, and within a field test by test
Conditions(obj, k) ==
  LET inputs == assertions[k].inputs
  IN  CASE Kind(k) = "Required Fields" ->
             [n \in 1..Len(inputs.c) |->
                Cond(~HasOwn(obj, inputs.c[n].s), "Missing required field", inputs.c[n].s)]
        [] Kind(k) = "Number Field Validation" /\ IsArray(inputs) ->
             [n \in 1..Len(inputs.c) |->
                Cond(Get(obj, inputs.c[n].s).t # "number", "is not a number.", inputs.c[n].s)]
        [] Kind(k) = "String Field Validation" ->
             Flatten([n \in 1..Len(inputs.c) |->
                LET value == Get(obj, inputs.c[n].s)
                IN  << Cond(value.t # "string", "is not a string.", inputs.c[n].s),
                       Cond(value.t = "string" /\ Trim(value.s) = <<>>,
                            "cannot be an empty string.", inputs.c[n].s) >>])
        [] Kind(k) = "Number Field Validation" ->
             Flatten([n \in 1..Len(Get(inputs, "fields").c) |->
                LET name == Get(inputs, "fields").c[n].s
                    value == Get(obj, name)
                    min == Get(inputs, "min")
                    max == Get(inputs, "max")
                    isNumber == value.t = "number"
                IN  << Cond(~isNumber, "is not a number.", name),
                       Cond(isNumber /\ min.t = "number"
                              /\ 2 * value.n + value.h < 2 * min.n + min.h,
                            "is below minimum value", name),
                       Cond(isNumber /\ max.t = "number"
                              /\ 2 * value.n + value.h > 2 * max.n + max.h,
                            "exceeds maximum value", name),
                       Cond(isNumber /\ Get(inputs, "integerOnly") = Bool(TRUE) /\ value.h # 0,
                            "must be an integer.", name) >>])
        [] Kind(k) = "Schema Compliance" ->
             LET schema == Get(inputs, "schema")
             IN  [n \in 1..Len(Keys(schema)) |->
                    Cond(TypeOf(Get(obj, Keys(schema)[n])) # Get(schema, Keys(schema)[n]).s,
                         "Field should be type but got", Keys(schema)[n])]
                 \o
                 [n \in 1..Len(Keys(obj)) |->
                    Cond(Get(inputs, "strict") = Bool(TRUE) /\ ~HasOwn(schema, Keys(obj)[n]),
                         "Strict schema compliance failed. Unexpected field", Keys(obj)[n])]

\* the positions of the conditions that obj fails
Failing(obj, k) == {n \in 1..Len(Conditions(obj, k)) : Conditions(obj, k)[n].fails}

\* C24: within one record the evaluation of a list-driven kind or of Schema
\* Compliance fails exactly when some condition fails, and its message is
\* that of the first failing condition in the order of the text and of the
\* input: it names that condition's field, whatever later fields or later
\* conditions (the strict check after a type mismatch) would have said.
C24_FirstFailingConditionReported ==
  \A k \in 1..Len(assertions) :
    Sequenced(k) =>
      \A e \in Evaluations(k) :
        /\ e.passed <=> Failing(e.obj, k) = {}
        /\ Failing(e.obj, k) # {} =>
             /\ e.message.tag = Conditions(e.obj, k)[Least(Failing(e.obj, k))].tag
             /\ e.message.strs[1] = Conditions(e.obj, k)[Least(Failing(e.obj, k))].name

\* {id: null, note: "x"} against the strict schema {id: "number"} failed on
\* the type of id, not on the extra note
C24_Witness ==
  /\ SchemaGiven(1)
  /\ Get(assertions[1].inputs, "strict") = Bool(TRUE)
  /\ \E e \in Evaluations(1) :
       /\ e.obj = Obj(<<KV("id", Null), KV("note", Str("x"))>>)
       /\ Cardinality(Failing(e.obj, 1)) >= 2
       /\ ~e.passed
       /\ e.message.tag = "Field should be type but got"

(***************************************************************************)
(* C25: what the fan-out hands to the item evaluator.                      *)
(***************************************************************************)
\* a key-value record, as against a scalar, null or an array
IsRecord(v) == v.t = "object"

\* the element itself when it is a record, else a fresh {value: element}
AsRecord(element) == IF IsRecord(element) THEN element ELSE Obj(<<KV("value", element)>>)

\* strictly ascending
Ascending(seq) == \A m, n \in 1..Len(seq) : m < n => seq[m] < seq[n]

\* C25: in a fan-out the indices are taken once each and in ascending order,
\* and the verdict noted for an index is that of the item evaluator on the
\* element itself when the element is a record and on {value: element} when
\* it is a scalar, null or a nested array.
C25_ElementsEvaluatedAsRecords ==
  \A k \in DOMAIN tasks :
    tasks[k].state # "none" =>
      /\ Ascending(tasks[k].failedIndices)
      /\ \A n \in 1..Len(tasks[k].failedIndices) : tasks[k].failedIndices[n] < tasks[k].i
      /\ \A j \in 1..tasks[k].i :
           LET o == validateObjectLevelSettled(AsRecord(responseData.c[j]),
                                               assertions[SpecOf(k)].assertion,
                                               assertions[SpecOf(k)].inputs)
           IN  o.kind = "return" => ((j - 1) \in Range(tasks[k].failedIndices) <=> ~o.pass)

(***************************************************************************)
(* C26: the classification of a kind.                                      *)
(***************************************************************************)
\* C26: for every kind exactly one of arrayCheck and objectCheck is set,
\* arrayCheck for "Array Validation" and for nothing else, so that no result
\* of a collection carries the message of the branch that is neither.
C26_ExactlyOneClass ==
  /\ \A k \in 1..Len(assertions) :
       /\ classifyAssertion(Kind(k)).arrayCheck # classifyAssertion(Kind(k)).objectCheck
       /\ classifyAssertion(Kind(k)).arrayCheck <=> Kind(k) = "Array Validation"
  /\ \A k \in 1..Len(results) :
       IsArray(responseData) => results[k] # [assertion |-> Kind(k)] @@ VerdictUnclassified(Kind(k))

\* a collection run has pushed the result of a kind the switch does not
\* know, next to that of Array Validation
C26_Witness ==
  /\ IsArray(responseData)
  /\ Done
  /\ \E k, l \in 1..Len(results) :
       /\ Kind(k) \notin Catalog
       /\ classifyAssertion(Kind(k)).objectCheck
       /\ Kind(l) = "Array Validation"
       /\ classifyAssertion(Kind(l)).arrayCheck

(***************************************************************************)
(* C27: No Additional Fields and Strict Validation.                        *)
(***************************************************************************)
\* assertions k and l are No Additional Fields and Strict Validation given
\* the same list of names
SameList(k, l) ==
  /\ Kind(k) = "No Additional Fields"
  /\ IsNameList(assertions[k].inputs)
  /\ Kind(l) = "Strict Validation"
  /\ assertions[l].inputs.t = "object"
  /\ Get(assertions[l].inputs, "allowedFields") = assertions[k].inputs

\* the keys of obj that are not among the names of the list
Outside(obj, list) == {key \in Range(Keys(obj)) : Str(key) \notin Range(list.c)}

\* C27: for one record and one list L, No Additional Fields with L and
\* Strict Validation with allowedFields L agree on passed, and both fail
\* exactly when the record has a key outside L; Strict Validation given no
\* allowedFields fails every record that has a key.
C27_StrictAsNoAdditionalFields ==
  /\ \A k, l \in 1..Len(assertions) :
       SameList(k, l) =>
         \A e \in Evaluations(k), f \in Evaluations(l) :
           e.obj = f.obj =>
             /\ e.passed = f.passed
             /\ e.passed <=> Outside(e.obj, assertions[k].inputs) = {}
  /\ \A l \in 1..Len(assertions) :
       (/\ Kind(l) = "Strict Validation"
        /\ assertions[l].inputs.t = "object"
        /\ ~HasOwn(assertions[l].inputs, "allowedFields")) =>
         \A f \in Evaluations(l) : Keys(f.obj) # <<>> => ~f.passed

\* {name, extra} was failed and {id: 1} passed by both kinds given
\* ["id", "name"], and {id: 1} was failed by Strict Validation given no list
C27_Witness ==
  /\ SameList(1, 2)
  /\ assertions[1].inputs = Names(<<"id", "name">>)
  /\ assertions[3] = AssertionObj("Strict Validation", Obj(<<>>))
  /\ \E e \in Evaluations(1), f \in Evaluations(2) :
       /\ e.obj = Obj(<<KV("name", Str("x")), KV("extra", Bool(TRUE))>>)
       /\ f.obj = e.obj
       /\ ~e.passed
       /\ ~f.passed
  /\ \E e \in Evaluations(1), f \in Evaluations(2), g \in Evaluations(3) :
       /\ e.obj = Obj(<<KV("id", Num(1))>>)
       /\ f.obj = e.obj
       /\ g.obj = e.obj
       /\ e.passed
       /\ f.passed
       /\ ~g.passed

(***************************************************************************)
(* C28: the list sendHTTPRequest returns.                                  *)
(***************************************************************************)
\* test case n got a response and has a list of expectations to run
Contributes(n) ==
  /\ suite.responses[n].kind = "response"
  /\ Iterable(suite.ibgrobotData.testCases[n].expected_results)

\* the entries owed for the first n test cases, in their order
RECURSIVE EntriesUpTo(_)
EntriesUpTo(n) ==
  IF n = 0 THEN <<>>
  ELSE EntriesUpTo(n - 1) \o
       (IF Contributes(n)
        THEN << [testCase |-> suite.ibgrobotData.testCases[n].description,
                 assertions |-> runAssertions(suite.responses[n].data,
                                  IterItems(suite.ibgrobotData.testCases[n].expected_results))] >>
        ELSE <<>>)

PassedCases ==
  {n \in 1..Len(suite.results) :
     \A a \in Range(suite.results[n].assertions) : a.passed = TRUE}

\* C29: the report built from the returned list counts every entry once,
\* as passed when all its assertion results passed (none is needed) and as
\* failed otherwise, skips none, and says "All tests passed" exactly when
\* no entry failed.
C29_ReportCounts ==
  suite.pc = "reported" =>
    /\ suite.report.ALL_TESTS_TOTAL = Len(suite.results)
    /\ suite.report.ALL_TESTS_PASS + suite.report.ALL_TESTS_FAIL = suite.report.ALL_TESTS_TOTAL
    /\ suite.report.ALL_TESTS_SKIP = 0
    /\ suite.report.ALL_TESTS_PASS = Cardinality(PassedCases)
    /\ suite.report.STATUS_TEXT = "All tests passed" <=> suite.report.ALL_TESTS_FAIL = 0

\* a report of two entries: one without assertion results, counted as
\* passed, and one with a failed assertion result, counted as failed
C29_Witness ==
  /\ suite.pc = "reported"
  /\ Len(suite.results) = 2
  /\ \E m, n \in 1..2 :
       /\ suite.results[m].assertions = <<>>
       /\ \E a \in Range(suite.results[n].assertions) : ~a.passed
  /\ suite.report.ALL_TESTS_PASS = 1
  /\ suite.report.ALL_TESTS_FAIL = 1
  /\ suite.report.STATUS_TEXT = "Some tests failed"

====
